---- MODULE Spec2Model ----
(***************************************************************************)
(* Model of the classroom relay server (server/index.js): the socket.io    *)
(* signalling handlers that keep the admins and clients registries, and    *)
(* the UDP receiver that reassembles chunked H.264 frames per source. And  *)
(* of the admin side of the app (src/App.tsx): the listeners that write    *)
(* its clients Map, and remote control.                                    *)
(*                                                                         *)
(* Strings the code slices or concatenates (socket ids, addresses, names)  *)
(* are sequences of one-character strings. A JavaScript Map is a sequence  *)
(* of entries in insertion order.                                          *)
(***************************************************************************)
EXTENDS Integers, Sequences, FiniteSets, TLC

VARIABLES
    conn,          \* socket id -> "fresh" | "open" | "closed"
    admins,        \* Map socket id -> {ip}
    clients,       \* Map socket id -> {ip, name, isLocked}
    frameBuffers,  \* Map clientKey -> {sequence, chunks, total, received}
    sent,          \* the messages the last handler emitted, in order
    completed,     \* the frames (h264Frame) the last handler completed
    crashed,       \* a handler threw: the process is gone
    last,          \* the name of the event the last handler handled
    streak,        \* 1 or 2: equal handlings in a row
    relayed,       \* the <<clientKey, sequence>> already forwarded to the admins
    plan,          \* the frame a sender has set out to send, chunk by chunk
    arrived,       \* the chunk indices of plan delivered so far, in arrival order
    idle,          \* clientKey -> the time since the source's last datagram
    view,          \* the admin app's clients Map: id -> ClientInfo
    remoteControlClient,  \* the admin app's remoteControlClient: an id or null
    uplink,        \* the admin app's socket.emit calls on their way to the server
    remoteScreenSize,     \* the admin app's remoteScreenSize: {width, height}
    downlink,      \* the server's messages to the admin app on their way to it
    asked,         \* the clients with a request-screen-size not yet answered
    transfer,      \* the file transfer session: its targets and their state
    agentApp,      \* machine -> the client app on it: {socket, isLocked, inbox}
    issued         \* the lock command the admin app emitted last, "" if none

vars == <<conn, admins, clients, frameBuffers, sent, completed, crashed, last,
          streak, relayed, plan, arrived, idle, view, remoteControlClient, uplink,
                   remoteScreenSize, downlink, asked,
                   transfer, agentApp, issued>>

(***************************************************************************)
(* Strings                                                                 *)
(***************************************************************************)
StartsWith(s, p) == Len(s) >= Len(p) /\ SubSeq(s, 1, Len(p)) = p

\* String.prototype.substr(from) and substr(from, len), 0-based.
Substr(s, from) == SubSeq(s, from + 1, Len(s))

SubstrLen(s, from, len) ==
    SubSeq(s, from + 1, IF from + len < Len(s) THEN from + len ELSE Len(s))

MappedPrefix == <<":", ":", "f", "f", "f", "f", ":">>

\* The three characters of the default name's prefix, "PC-".
PcPrefix == <<"P", "C", "-">>

(***************************************************************************)
(* The network the model runs on: three socket.io connections and the      *)
(* address socket.handshake.address reports for each. Two connections come *)
(* from the same machine, one of them seen as an IPv4-mapped IPv6 address. *)
(***************************************************************************)
Ip5 == <<"1", "0", ".", "0", ".", "0", ".", "5">>
Ip6 == <<"1", "0", ".", "0", ".", "0", ".", "6">>

Sock1 == <<"a", "X", "3", "f", "Q", "1">>
Sock2 == <<"b", "Y", "7", "k", "R", "2">>
Sock3 == <<"c", "Z", "9", "m", "S", "3">>

SocketIds == {Sock1, Sock2, Sock3}

HandshakeAddress(id) ==
    IF id = Sock1 THEN MappedPrefix \o Ip5
    ELSE IF id = Sock2 THEN Ip5
    ELSE Ip6

GivenName == <<"l", "a", "b">>

\* The name field of a register message: absent (the empty string is falsy
\* as well) or a name.
Names == {<<>>, GivenName}

\* The names a connection registers with: the first connection sends any of
\* Names, the others send none and get the default name.
NamesOf(s) == IF s = Sock1 THEN Names ELSE {<<>>}

Roles == {"admin", "client", "viewer"}

Messages == {"test"}

\* The payload of a screen-frame message, a base64 image.
Images == {<<"/", "9", "j", "=">>}

\* The payload of a screen-size-response message.
Sizes == {[width |-> 1366, height |-> 768]}

\* The fields of the payloads of the four remote input events. A field an
\* event does not carry is as it is here.
NoInput ==
    [x |-> 0, y |-> 0, button |-> "", deltaX |-> 0, deltaY |-> 0, key |-> "",
     code |-> "", ctrl |-> FALSE, alt |-> FALSE, shift |-> FALSE, meta |-> FALSE]

\* The metadata of a file transfer. The relay reads its file_name (for the
\* log) and passes the object on as it is.
NoMetadata == [file_name |-> <<>>]

Metadatas == {[file_name |-> <<"f">>]}

\* A socket id no connection ever had.
UnknownId == <<"z", "z">>

\* The clientIds of a file-transfer-start message.
TargetLists == {<<Sock2, Sock3>>, <<Sock3, Sock1>>, <<Sock1, UnknownId>>}

\* The transferId, chunkIndex and data of a file-chunk message.
FileChunks == {[transferId |-> <<"t", "1">>, chunkIndex |-> 0,
                data |-> <<"Q", "Q", "=", "=">>]}

(***************************************************************************)
(* Map                                                                     *)
(***************************************************************************)
MapHas(m, id) == \E i \in 1..Len(m) : m[i].id = id

MapIndex(m, id) == CHOOSE i \in 1..Len(m) : m[i].id = id

MapGet(m, id) == m[MapIndex(m, id)]

\* Map.prototype.set: a new key is appended, an existing key keeps its place.
MapSet(m, entry) ==
    IF MapHas(m, entry.id)
    THEN [m EXCEPT ![MapIndex(m, entry.id)] = entry]
    ELSE Append(m, entry)

MapDelete(m, id) == SelectSeq(m, LAMBDA e : e.id # id)

MapKeys(m) == {m[i].id : i \in 1..Len(m)}

(***************************************************************************)
(* Messages the server emits, io.to(room).emit(event, payload). One record *)
(* shape for every event; a field an event does not carry is empty.        *)
(***************************************************************************)
Msg(to, event) ==
    [to |-> to, event |-> event, clientId |-> <<>>, list |-> <<>>,
     message |-> "", data |-> <<>>, sequence |-> -1, width |-> -1, height |-> -1,
     metadata |-> NoMetadata, transferId |-> <<>>, chunkIndex |-> -1,
     input |-> NoInput, progress |-> -1, error |-> ""]

getClientIp(id) ==
    LET ip == HandshakeAddress(id)
    IN  IF StartsWith(ip, MappedPrefix) THEN Substr(ip, 7) ELSE ip

ClientListEntry(c) == [id |-> c.id, ip |-> c.ip, name |-> c.name]

ClientList(cl) == [i \in 1..Len(cl) |-> ClientListEntry(cl[i])]

\* A broadcast to every connection of the registry, as io.emit would do.
broadcastToAll(adm, cl) ==
    [i \in 1..(Len(adm) + Len(cl)) |->
        [Msg(IF i <= Len(adm) THEN adm[i].id ELSE cl[i - Len(adm)].id, "client-list")
            EXCEPT !.list = ClientList(cl)]]

\* broadcastClientList: one client-list message per admin, in Map order.
broadcastClientList(adm, cl) ==
    [i \in 1..Len(adm) |->
        [Msg(adm[i].id, "client-list") EXCEPT !.list = ClientList(cl)]]

(***************************************************************************)
(* Handlers as functions of the registry: each yields the admins and       *)
(* clients Maps after the handler and the messages it emitted.             *)
(***************************************************************************)
Result(adm, cl, out) == [admins |-> adm, clients |-> cl, sent |-> out]

DefaultName(id) == PcPrefix \o SubstrLen(id, 0, 4)

NewClient(id, name) ==
    [id |-> id, ip |-> getClientIp(id),
     name |-> IF name # <<>> THEN name ELSE DefaultName(id),
     isLocked |-> FALSE]

\* A register handler that tells the admins of new clients only.
RegisterAdminSilent(adm, cl, id, role, name) ==
    IF role = "admin"
    THEN Result(MapSet(adm, [id |-> id, ip |-> getClientIp(id)]), cl, <<>>)
    ELSE IF role = "client"
    THEN LET cl2 == MapSet(cl, NewClient(id, name))
         IN  Result(adm, cl2, broadcastClientList(adm, cl2))
    ELSE Result(adm, cl, <<>>)

RegisterEffect(adm, cl, id, role, name) ==
    IF role = "admin"
    THEN LET adm2 == MapSet(adm, [id |-> id, ip |-> getClientIp(id)])
         IN  Result(adm2, cl, broadcastClientList(adm2, cl))
    ELSE IF role = "client"
    THEN LET cl2 == MapSet(cl, NewClient(id, name))
         IN  Result(adm, cl2, broadcastClientList(adm, cl2))
    ELSE Result(adm, cl, <<>>)

\* A disconnect handler that broadcasts the list it had before the delete.
DisconnectStaleList(adm, cl, id) ==
    LET adm2 == IF MapHas(adm, id) THEN MapDelete(adm, id) ELSE adm
    IN  IF MapHas(cl, id)
        THEN Result(adm2, MapDelete(cl, id), broadcastClientList(adm2, cl))
        ELSE Result(adm2, cl, <<>>)

\* A disconnect handler that broadcasts whether or not a client left.
DisconnectAlwaysBroadcast(adm, cl, id) ==
    LET adm2 == IF MapHas(adm, id) THEN MapDelete(adm, id) ELSE adm
        cl2  == MapDelete(cl, id)
    IN  Result(adm2, cl2, broadcastClientList(adm2, cl2))

DisconnectEffect(adm, cl, id) ==
    LET adm2 == IF MapHas(adm, id) THEN MapDelete(adm, id) ELSE adm
    IN  IF MapHas(cl, id)
        THEN LET cl2 == MapDelete(cl, id)
             IN  Result(adm2, cl2, broadcastClientList(adm2, cl2))
        ELSE Result(adm2, cl, <<>>)

SetLocked(cl, id, v) == [cl EXCEPT ![MapIndex(cl, id)].isLocked = v]

\* A lock handler that does nothing for a client that is locked already.
LockClientDedup(adm, cl, clientId, message) ==
    IF MapHas(cl, clientId) /\ ~MapGet(cl, clientId).isLocked
    THEN Result(adm, SetLocked(cl, clientId, TRUE),
                <<[Msg(clientId, "lock") EXCEPT !.message = message]>>)
    ELSE Result(adm, cl, <<>>)

LockClientEffect(adm, cl, clientId, message) ==
    IF MapHas(cl, clientId)
    THEN Result(adm, SetLocked(cl, clientId, TRUE),
                <<[Msg(clientId, "lock") EXCEPT !.message = message]>>)
    ELSE Result(adm, cl, <<>>)

\* An unlock handler that emits without looking the client up.
UnlockClientNoCheck(adm, cl, clientId) ==
    Result(adm,
           IF MapHas(cl, clientId) THEN SetLocked(cl, clientId, FALSE) ELSE cl,
           <<Msg(clientId, "unlock")>>)

UnlockClientEffect(adm, cl, clientId) ==
    IF MapHas(cl, clientId)
    THEN Result(adm, SetLocked(cl, clientId, FALSE), <<Msg(clientId, "unlock")>>)
    ELSE Result(adm, cl, <<>>)

\* A lock-all handler that passes over the clients that are locked already.
LockAllSkipLocked(adm, cl, message) ==
    LET todo == SelectSeq(cl, LAMBDA c : ~c.isLocked)
    IN  Result(adm,
               [i \in 1..Len(cl) |-> [cl[i] EXCEPT !.isLocked = TRUE]],
               [i \in 1..Len(todo) |->
                   [Msg(todo[i].id, "lock") EXCEPT !.message = message]])

\* socket.on("lock-all"): clients.forEach sets isLocked and emits lock.
LockAllEffect(adm, cl, message) ==
    Result(adm,
           [i \in 1..Len(cl) |-> [cl[i] EXCEPT !.isLocked = TRUE]],
           [i \in 1..Len(cl) |-> [Msg(cl[i].id, "lock") EXCEPT !.message = message]])

UnlockAllEffect(adm, cl) ==
    Result(adm,
           [i \in 1..Len(cl) |-> [cl[i] EXCEPT !.isLocked = FALSE]],
           [i \in 1..Len(cl) |-> Msg(cl[i].id, "unlock")])

\* A screen-frame handler that sends the frame back to its sender as well.
ScreenFrameEcho(adm, cl, id, data) ==
    Result(adm, cl,
           [i \in 1..(Len(adm) + 1) |->
               [Msg(IF i <= Len(adm) THEN adm[i].id ELSE id, "screen-frame")
                   EXCEPT !.clientId = id, !.data = data]])

\* socket.on("screen-frame"): the frame goes to every admin, tagged socket.id.
ScreenFrameEffect(adm, cl, id, data) ==
    Result(adm, cl,
           [i \in 1..Len(adm) |->
               [Msg(adm[i].id, "screen-frame") EXCEPT !.clientId = id, !.data = data]])

\* A screen-size-response handler that answers one admin only, the first.
ScreenSizeToRequester(adm, cl, id, size) ==
    Result(adm, cl,
           [i \in 1..(IF adm = <<>> THEN 0 ELSE 1) |->
               [Msg(adm[i].id, "screen-size") EXCEPT !.clientId = id,
                                                    !.width = size.width,
                                                    !.height = size.height]])

\* socket.on("screen-size-response"): { clientId: socket.id, ...data } to
\* every admin; data is the { width, height } object a client answers a
\* request-screen-size with.
ScreenSizeResponseEffect(adm, cl, id, size) ==
    Result(adm, cl,
           [i \in 1..Len(adm) |->
               [Msg(adm[i].id, "screen-size") EXCEPT !.clientId = id,
                                                    !.width = size.width,
                                                    !.height = size.height]])

\* A file-transfer-start handler that sends the metadata to every listed id.
FileTransferStartNoCheck(adm, cl, clientIds, metadata) ==
    Result(adm, cl,
           [i \in 1..Len(clientIds) |->
               [Msg(clientIds[i], "file-transfer-metadata") EXCEPT !.metadata = metadata]])

\* socket.on("file-transfer-start"): the metadata goes to each listed id that
\* is a key of clients, in list order.
FileTransferStartEffect(adm, cl, clientIds, metadata) ==
    LET known == SelectSeq(clientIds, LAMBDA c : MapHas(cl, c))
    IN  Result(adm, cl,
               [i \in 1..Len(known) |->
                   [Msg(known[i], "file-transfer-metadata")
                       EXCEPT !.metadata = metadata]])

\* socket.on("file-chunk"): { transferId, chunkIndex, data } to clientId when
\* it is a key of clients.
FileChunkEffect(adm, cl, clientId, transferId, chunkIndex, data) ==
    IF MapHas(cl, clientId)
    THEN Result(adm, cl,
                <<[Msg(clientId, "file-chunk") EXCEPT !.transferId = transferId,
                                                     !.chunkIndex = chunkIndex,
                                                     !.data = data]>>)
    ELSE Result(adm, cl, <<>>)

RemoteEvents ==
    {"remote-mouse-move", "remote-mouse-click", "remote-mouse-scroll",
     "remote-key-press"}

\* Handlers of the remote input events that keep the pointer on a
\* 1920x1080 screen.
RemoteInputClamped(adm, cl, event, clientId, input) ==
    LET Clamp(n, max) == IF n < 0 THEN 0 ELSE IF n > max THEN max ELSE n
        picked ==
            CASE event = "remote-mouse-move" ->
                    [NoInput EXCEPT !.x = Clamp(input.x, 1920), !.y = Clamp(input.y, 1080)]
              [] event = "remote-mouse-click" ->
                    [NoInput EXCEPT !.button = input.button]
              [] event = "remote-mouse-scroll" ->
                    [NoInput EXCEPT !.deltaX = input.deltaX, !.deltaY = input.deltaY]
              [] event = "remote-key-press" ->
                    [NoInput EXCEPT !.key = input.key, !.code = input.code,
                                    !.ctrl = input.ctrl, !.alt = input.alt,
                                    !.shift = input.shift, !.meta = input.meta]
    IN  Result(adm, cl, <<[Msg(clientId, event) EXCEPT !.input = picked]>>)

\* socket.on("remote-mouse-move" | "remote-mouse-click" |
\* "remote-mouse-scroll" | "remote-key-press"): each handler takes clientId
\* and its own fields out of the payload and emits those fields, under the
\* same event name, to clientId, without a look at the registries.
RemoteInputEffect(adm, cl, event, clientId, input) ==
    LET picked ==
            CASE event = "remote-mouse-move" ->
                    [NoInput EXCEPT !.x = input.x, !.y = input.y]
              [] event = "remote-mouse-click" ->
                    [NoInput EXCEPT !.button = input.button]
              [] event = "remote-mouse-scroll" ->
                    [NoInput EXCEPT !.deltaX = input.deltaX, !.deltaY = input.deltaY]
              [] event = "remote-key-press" ->
                    [NoInput EXCEPT !.key = input.key, !.code = input.code,
                                    !.ctrl = input.ctrl, !.alt = input.alt,
                                    !.shift = input.shift, !.meta = input.meta]
    IN  Result(adm, cl, <<[Msg(clientId, event) EXCEPT !.input = picked]>>)

\* Report handlers that tell the first admin only.
FileTransferReportToFirst(adm, cl, event, id, data) ==
    Result(adm, cl,
           [i \in 1..(IF adm = <<>> THEN 0 ELSE 1) |->
               [Msg(adm[i].id, event) EXCEPT !.clientId = id,
                                            !.transferId = data.transferId,
                                            !.progress = data.progress,
                                            !.error = data.error]])

\* socket.on("file-transfer-progress" | "file-transfer-complete" |
\* "file-transfer-error"): { clientId: socket.id, ...data } to every admin,
\* under the same event name. data is the report of a client: transferId
\* and, by the event, its progress or its error.
FileTransferReportEffect(adm, cl, event, id, data) ==
    Result(adm, cl,
           [i \in 1..Len(adm) |->
               [Msg(adm[i].id, event) EXCEPT !.clientId = id,
                                            !.transferId = data.transferId,
                                            !.progress = data.progress,
                                            !.error = data.error]])

\* A request-screen-size handler that asks every registered client.
RequestScreenSizeAll(adm, cl, clientId) ==
    Result(adm, cl, [i \in 1..Len(cl) |-> Msg(cl[i].id, "request-screen-size")])

\* socket.on("request-screen-size"): io.to(clientId).emit, without payload
\* and without a look at the registries.
RequestScreenSizeEffect(adm, cl, clientId) ==
    Result(adm, cl, <<Msg(clientId, "request-screen-size")>>)

\* A relay that acts on the commands of registered admins only.
OnCommandAdminsOnly(adm, cl, id, cmd) ==
    IF ~MapHas(adm, id) THEN Result(adm, cl, <<>>)
    ELSE CASE cmd.event = "lock-client" ->
                 LockClientEffect(adm, cl, cmd.clientId, cmd.message)
           [] cmd.event = "unlock-client" -> UnlockClientEffect(adm, cl, cmd.clientId)
           [] cmd.event = "lock-all" -> LockAllEffect(adm, cl, cmd.message)
           [] cmd.event = "unlock-all" -> UnlockAllEffect(adm, cl)
           [] cmd.event = "screen-frame" -> ScreenFrameEffect(adm, cl, id, cmd.data)
           [] cmd.event \in RemoteEvents ->
                 RemoteInputEffect(adm, cl, cmd.event, cmd.clientId, cmd.input)

\* The handlers of lines 141-204 as the connection id reaches them: each is
\* registered with socket.on for every connection (line 104), and none
\* looks id up in admins or clients before it acts; screen-frame alone
\* reads socket.id, for the tag.
OnCommand(adm, cl, id, cmd) ==
    CASE cmd.event = "lock-client" ->
            LockClientEffect(adm, cl, cmd.clientId, cmd.message)
      [] cmd.event = "unlock-client" -> UnlockClientEffect(adm, cl, cmd.clientId)
      [] cmd.event = "lock-all" -> LockAllEffect(adm, cl, cmd.message)
      [] cmd.event = "unlock-all" -> UnlockAllEffect(adm, cl)
      [] cmd.event = "screen-frame" -> ScreenFrameEffect(adm, cl, id, cmd.data)
      [] cmd.event \in RemoteEvents ->
            RemoteInputEffect(adm, cl, cmd.event, cmd.clientId, cmd.input)

(***************************************************************************)
(* The UDP receiver. A datagram is a sequence of bytes; a Buffer slice is  *)
(* a sequence of bytes as well. An array slot is <<>> when it is a hole    *)
(* (undefined) and <<payload>> when it holds a Buffer: a Buffer is truthy  *)
(* even when it is empty.                                                  *)
(***************************************************************************)
HeaderLength == 8

readUInt16BE(msg, off) == msg[off + 1] * 256 + msg[off + 2]

readUInt32BE(msg, off) ==
    msg[off + 1] * 16777216 + msg[off + 2] * 65536 + msg[off + 3] * 256 + msg[off + 4]

Slice(msg, from) == SubSeq(msg, from + 1, Len(msg))

DigitChars == <<"0", "1", "2", "3", "4", "5", "6", "7", "8", "9">>

RECURSIVE Digits(_)
Digits(n) == IF n < 10 THEN <<DigitChars[n + 1]>>
             ELSE Digits(n \div 10) \o <<DigitChars[(n % 10) + 1]>>

\* `${rinfo.address}:${rinfo.port}`
ClientKey(rinfo) == rinfo.address \o <<":">> \o Digits(rinfo.port)

Hole == <<>>

NewArray(n) == [i \in 1..n |-> Hole]

ArrayGet(a, i) == IF i < Len(a) THEN a[i + 1] ELSE Hole

\* A receiver that stores the chunks in arrival order: chunks.push(v).
ArraySetPush(a, i, v) ==
    IF \E j \in 1..Len(a) : a[j] = Hole
    THEN [a EXCEPT ![CHOOSE j \in 1..Len(a) :
                        a[j] = Hole /\ \A k \in 1..(j - 1) : a[k] # Hole] = <<v>>]
    ELSE Append(a, <<v>>)

\* a[i] = v: an index at or past the length extends the array with holes.
ArraySet(a, i, v) ==
    [j \in 1..(IF i + 1 > Len(a) THEN i + 1 ELSE Len(a)) |->
        IF j = i + 1 THEN <<v>> ELSE IF j <= Len(a) THEN a[j] ELSE Hole]

Truthy(slot) == slot # Hole

HasHole(a) == \E i \in 1..Len(a) : a[i] = Hole

\* Buffer.concat(list), which throws on an element that is no Buffer: call it
\* on a list without holes only.
RECURSIVE BufferConcat(_)
BufferConcat(a) == IF a = <<>> THEN <<>> ELSE Head(a)[1] \o BufferConcat(Tail(a))

B64Alphabet ==
    <<"A", "B", "C", "D", "E", "F", "G", "H", "I", "J", "K", "L", "M", "N", "O", "P",
      "Q", "R", "S", "T", "U", "V", "W", "X", "Y", "Z", "a", "b", "c", "d", "e", "f",
      "g", "h", "i", "j", "k", "l", "m", "n", "o", "p", "q", "r", "s", "t", "u", "v",
      "w", "x", "y", "z", "0", "1", "2", "3", "4", "5", "6", "7", "8", "9", "+", "/">>

B64Char(n) == B64Alphabet[n + 1]

\* Buffer.prototype.toString("base64")
RECURSIVE Base64(_)
Base64(b) ==
    IF Len(b) = 0 THEN <<>>
    ELSE IF Len(b) = 1
    THEN <<B64Char(b[1] \div 4), B64Char((b[1] % 4) * 16), "=", "=">>
    ELSE IF Len(b) = 2
    THEN <<B64Char(b[1] \div 4), B64Char((b[1] % 4) * 16 + b[2] \div 16),
           B64Char((b[2] % 16) * 4), "=">>
    ELSE <<B64Char(b[1] \div 4), B64Char((b[1] % 4) * 16 + b[2] \div 16),
           B64Char((b[2] % 16) * 4 + b[3] \div 64), B64Char(b[3] % 64)>>
         \o Base64(SubSeq(b, 4, Len(b)))

\* The buffer a source gets on its first datagram. received is not set yet
\* (-1 stands for undefined); the first datagram's sequence, an unsigned
\* number, differs from -1, so received is set before it is read.
NewBuffer == [sequence |-> -1, chunks |-> <<>>, total |-> 0, received |-> -1]

StartFrame(sequence, totalChunks) ==
    [sequence |-> sequence, chunks |-> NewArray(totalChunks),
     total |-> totalChunks, received |-> 0]

\* A receiver that takes over the new sequence and total and keeps the slots.
BeginFrameKeep(buffer, sequence, totalChunks) ==
    IF sequence # buffer.sequence
    THEN [buffer EXCEPT !.sequence = sequence, !.total = totalChunks,
                        !.received = IF @ < 0 THEN 0 ELSE @]
    ELSE buffer

\* A receiver that takes the total of every datagram.
BeginFrameRetotal(buffer, sequence, totalChunks) ==
    IF sequence # buffer.sequence THEN StartFrame(sequence, totalChunks)
    ELSE [buffer EXCEPT !.total = totalChunks]

\* A receiver that lets only a higher sequence start a new frame.
BeginFrameHigher(buffer, sequence, totalChunks) ==
    IF sequence > buffer.sequence THEN StartFrame(sequence, totalChunks) ELSE buffer

\* A receiver that starts a new frame only when the old one is done.
BeginFrameWaits(buffer, sequence, totalChunks) ==
    IF sequence # buffer.sequence /\ buffer.received <= 0
    THEN StartFrame(sequence, totalChunks)
    ELSE buffer

\* Lines 32-38: a datagram of another sequence starts a new frame.
BeginFrame(buffer, sequence, totalChunks) ==
    IF sequence # buffer.sequence THEN StartFrame(sequence, totalChunks) ELSE buffer

\* A receiver that takes a chunk of any index whose slot is free.
AcceptsAnyIndex(buffer, chunkIndex) ==
    ~Truthy(ArrayGet(buffer.chunks, chunkIndex))

\* Line 41: the chunk is in range and its slot is free.
Accepts(buffer, chunkIndex) ==
    chunkIndex < buffer.total /\ ~Truthy(ArrayGet(buffer.chunks, chunkIndex))

\* Lines 42-43.
StoreChunk(buffer, chunkIndex, payload) ==
    [buffer EXCEPT !.chunks = ArraySet(@, chunkIndex, payload),
                   !.received = @ + 1]

\* A receiver that leaves the completed frame in the buffer.
ResetBufferKeep(buffer) == buffer

\* Lines 69-70.
ResetBuffer(buffer) == [buffer EXCEPT !.chunks = <<>>, !.received = 0]

\* A lookup that takes the newest client, whatever its ip.
FindNewestClient(cl, address) ==
    IF cl = <<>> THEN <<>> ELSE cl[Len(cl)].id

\* Lines 50-55: the last client, in Map order, whose ip is the source's
\* address; <<>> stands for null.
FindClientByIp(cl, address) ==
    LET hits == {i \in 1..Len(cl) : cl[i].ip = address}
    IN  IF hits = {} THEN <<>>
        ELSE cl[CHOOSE i \in hits : \A j \in hits : j <= i].id

\* Lines 57-66.
ForwardFrame(adm, clientSocketId, h264Frame, sequence) ==
    IF clientSocketId # <<>>
    THEN [i \in 1..Len(adm) |->
            [Msg(adm[i].id, "h264-frame") EXCEPT !.clientId = clientSocketId,
                                                !.data = Base64(h264Frame),
                                                !.sequence = sequence]]
    ELSE <<>>

\* stored tells whether lines 42-43 ran.
UdpResult(fb, out, frames, threw, fwd, didStore) ==
    [frameBuffers |-> fb, sent |-> out, completed |-> frames, crashed |-> threw,
     relayed |-> fwd, stored |-> didStore]

\* A receiver that opens the source's buffer before it looks at the length.
UdpEffectOpenFirst(fb, adm, cl, rinfo, msg) ==
    LET clientKey == ClientKey(rinfo)
        fb1 == IF clientKey \in DOMAIN fb THEN fb ELSE fb @@ (clientKey :> NewBuffer)
    IN  IF Len(msg) < HeaderLength THEN UdpResult(fb1, <<>>, <<>>, FALSE, {}, FALSE)
        ELSE
        LET sequence    == readUInt32BE(msg, 0)
            chunkIndex  == readUInt16BE(msg, 4)
            totalChunks == readUInt16BE(msg, 6)
            payload     == Slice(msg, 8)
            b1     == BeginFrame(fb1[clientKey], sequence, totalChunks)
            stored == Accepts(b1, chunkIndex)
            b2     == IF stored THEN StoreChunk(b1, chunkIndex, payload) ELSE b1
            done   == stored /\ b2.received = b2.total
        IN  IF ~done THEN UdpResult([fb1 EXCEPT ![clientKey] = b2], <<>>, <<>>, FALSE,
                                    {}, stored)
            ELSE IF HasHole(b2.chunks)
            THEN UdpResult([fb1 EXCEPT ![clientKey] = b2], <<>>, <<>>, TRUE, {}, TRUE)
            ELSE LET h264Frame == BufferConcat(b2.chunks)
                     out == ForwardFrame(adm, FindClientByIp(cl, rinfo.address),
                                         h264Frame, sequence)
                 IN  UdpResult([fb1 EXCEPT ![clientKey] = ResetBuffer(b2)], out,
                               <<[key |-> clientKey, sequence |-> sequence,
                                  frame |-> h264Frame]>>,
                               FALSE,
                               IF out # <<>> THEN {<<clientKey, sequence>>} ELSE {},
                               TRUE)

\* A receiver that reassembles the datagrams of registered machines only.
UdpEffectRegisteredOnly(fb, adm, cl, rinfo, msg) ==
    IF FindClientByIp(cl, rinfo.address) = <<>>
    THEN UdpResult(fb, <<>>, <<>>, FALSE, {}, FALSE)
    ELSE
    IF Len(msg) < HeaderLength THEN UdpResult(fb, <<>>, <<>>, FALSE, {}, FALSE)
    ELSE
    LET sequence    == readUInt32BE(msg, 0)
        chunkIndex  == readUInt16BE(msg, 4)
        totalChunks == readUInt16BE(msg, 6)
        payload     == Slice(msg, 8)
        clientKey   == ClientKey(rinfo)
        fb1    == IF clientKey \in DOMAIN fb THEN fb ELSE fb @@ (clientKey :> NewBuffer)
        b1     == BeginFrame(fb1[clientKey], sequence, totalChunks)
        stored == Accepts(b1, chunkIndex)
        b2     == IF stored THEN StoreChunk(b1, chunkIndex, payload) ELSE b1
        done   == stored /\ b2.received = b2.total
    IN  IF ~done THEN UdpResult([fb1 EXCEPT ![clientKey] = b2], <<>>, <<>>, FALSE, {},
                                stored)
        ELSE IF HasHole(b2.chunks)
        THEN UdpResult([fb1 EXCEPT ![clientKey] = b2], <<>>, <<>>, TRUE, {}, TRUE)
        ELSE LET h264Frame == BufferConcat(b2.chunks)
                 out == ForwardFrame(adm, FindClientByIp(cl, rinfo.address),
                                     h264Frame, sequence)
             IN  UdpResult([fb1 EXCEPT ![clientKey] = ResetBuffer(b2)], out,
                           <<[key |-> clientKey, sequence |-> sequence,
                              frame |-> h264Frame]>>,
                           FALSE,
                           IF out # <<>> THEN {<<clientKey, sequence>>} ELSE {},
                           TRUE)

\* udpServer.on("message"): the frameBuffers Map after the datagram, the
\* messages emitted, the frame completed (if any), and whether it threw.
UdpEffect(fb, adm, cl, rinfo, msg) ==
    IF Len(msg) < HeaderLength THEN UdpResult(fb, <<>>, <<>>, FALSE, {}, FALSE)
    ELSE
    LET sequence    == readUInt32BE(msg, 0)
        chunkIndex  == readUInt16BE(msg, 4)
        totalChunks == readUInt16BE(msg, 6)
        payload     == Slice(msg, 8)
        clientKey   == ClientKey(rinfo)
        fb1    == IF clientKey \in DOMAIN fb THEN fb ELSE fb @@ (clientKey :> NewBuffer)
        b1     == BeginFrame(fb1[clientKey], sequence, totalChunks)
        stored == Accepts(b1, chunkIndex)
        b2     == IF stored THEN StoreChunk(b1, chunkIndex, payload) ELSE b1
        done   == stored /\ b2.received = b2.total
    IN  IF ~done THEN UdpResult([fb1 EXCEPT ![clientKey] = b2], <<>>, <<>>, FALSE, {},
                                stored)
        ELSE IF HasHole(b2.chunks)
        THEN UdpResult([fb1 EXCEPT ![clientKey] = b2], <<>>, <<>>, TRUE, {}, TRUE)
        ELSE LET h264Frame == BufferConcat(b2.chunks)
                 out == ForwardFrame(adm, FindClientByIp(cl, rinfo.address),
                                     h264Frame, sequence)
             IN  UdpResult([fb1 EXCEPT ![clientKey] = ResetBuffer(b2)], out,
                           <<[key |-> clientKey, sequence |-> sequence,
                              frame |-> h264Frame]>>,
                           FALSE,
                           IF out # <<>> THEN {<<clientKey, sequence>>} ELSE {},
                           TRUE)

(***************************************************************************)
(* The admin app (App.tsx). Its clients state is a Map id -> ClientInfo;   *)
(* each handler below is the updater the handler passes to setClients: the *)
(* Map after the event, from the Map before. screenData is <<>> while it   *)
(* is undefined.                                                           *)
(***************************************************************************)
Unknown == <<"u", "n", "k", "n", "o", "w", "n">>

UdpPrefix == <<"u", "d", "p", "-">>

H264Prefix == <<"h", "2", "6", "4", "-">>

\* clientIp.split('.').pop()
RECURSIVE LastSegment(_)
LastSegment(str) ==
    IF \E i \in 1..Len(str) : str[i] = "."
    THEN LastSegment(Tail(str))
    ELSE str

ClientInfo(id, ip, name, screenData) ==
    [id |-> id, ip |-> ip, name |-> name, screenData |-> screenData,
     isLocked |-> FALSE, isSelected |-> FALSE]

\* The placeholder the frame listeners make for an address.
Placeholder(prefix, clientIp, screenData) ==
    ClientInfo(prefix \o clientIp, clientIp, PcPrefix \o LastSegment(clientIp), screenData)

\* list.forEach of the client-list handler: a new id is added, a known one
\* gets the ip and name of the list.
RECURSIVE MergeList(_, _)
MergeList(prev, list) ==
    IF list = <<>> THEN prev
    ELSE LET c == Head(list)
             entry == IF MapHas(prev, c.id)
                      THEN [MapGet(prev, c.id) EXCEPT !.ip = c.ip, !.name = c.name]
                      ELSE ClientInfo(c.id, c.ip, c.name, <<>>)
         IN  MergeList(MapSet(prev, entry), Tail(list))

\* A client-list handler that makes the Map anew from the list.
ClientListRebuild(prev, list) ==
    [i \in 1..Len(list) |-> ClientInfo(list[i].id, list[i].ip, list[i].name, <<>>)]

\* A client-list handler that adds and updates, and deletes nothing.
ClientListAddOnly(prev, list) == MergeList(prev, list)

\* socket.on("client-list"): merge, then delete the ids the list lacks.
ClientListView(prev, list) ==
    SelectSeq(MergeList(prev, list),
              LAMBDA e : \E i \in 1..Len(list) : list[i].id = e.id)

\* A screen-frame handler that shows the frame on every client.
ScreenFrameViewAll(prev, clientId, data) ==
    IF MapHas(prev, clientId)
    THEN [i \in 1..Len(prev) |-> [prev[i] EXCEPT !.screenData = data]]
    ELSE Append(prev, ClientInfo(clientId, Unknown,
                                 PcPrefix \o SubstrLen(clientId, 0, 4), data))

\* socket.on("screen-frame") of the admin: the frame replaces the client's
\* screenData; an id not in the Map gets a placeholder.
ScreenFrameView(prev, clientId, data) ==
    IF MapHas(prev, clientId)
    THEN MapSet(prev, [MapGet(prev, clientId) EXCEPT !.screenData = data])
    ELSE MapSet(prev, ClientInfo(clientId, Unknown,
                                 PcPrefix \o SubstrLen(clientId, 0, 4), data))

\* The forEach of both frame listeners: every client whose ip is the
\* frame's address or 'unknown' takes the address and the frame.
Adopt(prev, clientIp, screenData) ==
    [i \in 1..Len(prev) |->
        IF prev[i].ip = clientIp \/ prev[i].ip = Unknown
        THEN [prev[i] EXCEPT !.ip = clientIp, !.screenData = screenData]
        ELSE prev[i]]

Found(prev, clientIp) ==
    \E i \in 1..Len(prev) : prev[i].ip = clientIp \/ prev[i].ip = Unknown

\* listen("udp-frame"): a placeholder when nothing was found and the Map is
\* empty.
UdpFrameView(prev, clientIp, dataUrl) ==
    IF ~Found(prev, clientIp) /\ Len(prev) = 0
    THEN MapSet(Adopt(prev, clientIp, dataUrl), Placeholder(UdpPrefix, clientIp, dataUrl))
    ELSE Adopt(prev, clientIp, dataUrl)

\* The output callback of the decoder of listen("h264-frame"): a placeholder
\* when nothing was found.
H264OutputView(prev, clientIp, imageData) ==
    IF ~Found(prev, clientIp)
    THEN MapSet(Adopt(prev, clientIp, imageData),
                Placeholder(H264Prefix, clientIp, imageData))
    ELSE Adopt(prev, clientIp, imageData)

\* useState({ width: 1920, height: 1080 }), the size the input coordinates
\* are scaled to before any client told its own.
DefaultScreenSize == [width |-> 1920, height |-> 1080]

\* socket.emit("request-screen-size", { clientId })
ScreenSizeRequest(clientId) ==
    [event |-> "request-screen-size", clientId |-> clientId, input |-> NoInput]

\* startRemoteControl(clientId): the remoteControlClient after the call, and
\* the messages it emits to the server.
StartRemoteControlEffect(current, clientId) ==
    [remoteControlClient |-> clientId, emitted |-> <<ScreenSizeRequest(clientId)>>]

(***************************************************************************)
(* State                                                                   *)
(***************************************************************************)
\* null, for an id.
Null == <<>>

\* No file transfer was started.
NoTransfer == [targets |-> <<>>, state |-> <<>>, finished |-> FALSE]

\* The machines that run the client app.
Machines == {"pc1", "pc2"}

\* The client app before it connects: useState(false) for isLocked, no
\* socket id, and no message on its way to it.
NoAgents == [pc \in Machines |-> [socket |-> Null, isLocked |-> FALSE, inbox |-> <<>>]]

NoPlan == [rinfo |-> [address |-> <<>>, port |-> 0], sequence |-> 0,
           total |-> 0, payloads |-> <<>>]

Init ==
    /\ conn = [s \in SocketIds |-> "fresh"]
    /\ admins = <<>>
    /\ clients = <<>>
    /\ frameBuffers = <<>>
    /\ sent = <<>>
    /\ last = "none"
    /\ streak = 0
    /\ relayed = {}
    /\ completed = <<>>
    /\ crashed = FALSE
    /\ plan = NoPlan
    /\ arrived = <<>>
    /\ idle = <<>>
    /\ view = <<>>
    /\ remoteControlClient = Null
    /\ uplink = <<>>
    /\ remoteScreenSize = DefaultScreenSize
    /\ downlink = <<>>
    /\ asked = {}
    /\ transfer = NoTransfer
    /\ agentApp = NoAgents
    /\ issued = ""

\* A handler ran: its registry result, its emissions, and the name of the event
\* it handled. streak counts, up to 2, how many handlers in a row handled the
\* same event name and emitted the same messages.
Handled(r, ev) ==
    /\ admins' = r.admins
    /\ clients' = r.clients
    /\ sent' = r.sent
    /\ last' = ev
    /\ streak' = IF ev = last /\ r.sent = sent /\ streak >= 1 THEN 2 ELSE 1
    /\ completed' = <<>>
    /\ UNCHANGED <<frameBuffers, relayed, crashed, plan, arrived, idle, view,
                   remoteControlClient, uplink,
                   remoteScreenSize, downlink, asked,
                   transfer, agentApp, issued>>

Connect(s) ==
    /\ ~crashed
    /\ conn[s] = "fresh"
    /\ conn' = [conn EXCEPT ![s] = "open"]
    /\ Handled(Result(admins, clients, <<>>), "connection")

Register(s, role, name) ==
    /\ ~crashed
    /\ conn[s] = "open"
    /\ UNCHANGED conn
    /\ Handled(RegisterEffect(admins, clients, s, role, name),
               "register")

Disconnect(s) ==
    /\ ~crashed
    /\ conn[s] = "open"
    /\ conn' = [conn EXCEPT ![s] = "closed"]
    /\ Handled(DisconnectEffect(admins, clients, s), "disconnect")

LockClient(s, clientId, message) ==
    /\ ~crashed
    /\ conn[s] = "open"
    /\ UNCHANGED conn
    /\ Handled(LockClientEffect(admins, clients, clientId, message),
               "lock-client")

UnlockClient(s, clientId) ==
    /\ ~crashed
    /\ conn[s] = "open"
    /\ UNCHANGED conn
    /\ Handled(UnlockClientEffect(admins, clients, clientId),
               "unlock-client")

LockAll(s, message) ==
    /\ ~crashed
    /\ conn[s] = "open"
    /\ UNCHANGED conn
    /\ Handled(LockAllEffect(admins, clients, message),
               "lock-all")

UnlockAll(s) ==
    /\ ~crashed
    /\ conn[s] = "open"
    /\ UNCHANGED conn
    /\ Handled(UnlockAllEffect(admins, clients), "unlock-all")

ScreenFrame(s, data) ==
    /\ ~crashed
    /\ conn[s] = "open"
    /\ UNCHANGED conn
    /\ Handled(ScreenFrameEffect(admins, clients, s, data), "screen-frame")

ScreenSizeResponse(s, size) ==
    /\ ~crashed
    /\ conn[s] = "open"
    /\ UNCHANGED conn
    /\ Handled(ScreenSizeResponseEffect(admins, clients, s, size),
               "screen-size-response")

FileTransferStart(s, clientIds, metadata) ==
    /\ ~crashed
    /\ conn[s] = "open"
    /\ UNCHANGED conn
    /\ Handled(FileTransferStartEffect(admins, clients, clientIds, metadata),
               "file-transfer-start")

FileChunk(s, clientId, chunk) ==
    /\ ~crashed
    /\ conn[s] = "open"
    /\ UNCHANGED conn
    /\ Handled(FileChunkEffect(admins, clients, clientId, chunk.transferId,
                               chunk.chunkIndex, chunk.data),
               "file-chunk")

Next ==
    \/ \E s \in SocketIds : Connect(s)
    \/ \E s \in SocketIds, role \in Roles : \E name \in NamesOf(s) : Register(s, role, name)
    \/ \E s \in SocketIds : Disconnect(s)
    \/ \E s \in SocketIds, c \in SocketIds, m \in Messages : LockClient(s, c, m)
    \/ \E s \in SocketIds, c \in SocketIds : UnlockClient(s, c)
    \/ \E s \in SocketIds, m \in Messages : LockAll(s, m)
    \/ \E s \in SocketIds : UnlockAll(s)
    \/ \E s \in SocketIds, data \in Images : ScreenFrame(s, data)
    \/ \E s \in SocketIds, size \in Sizes : ScreenSizeResponse(s, size)
    \/ \E s \in SocketIds, ids \in TargetLists, md \in Metadatas :
          FileTransferStart(s, ids, md)
    \/ \E s \in SocketIds, c \in SocketIds, chunk \in FileChunks : FileChunk(s, c, chunk)

Spec == Init /\ [][Next]_vars

(***************************************************************************)
(* The datagram plane on its own. The UDP handler only reads the registry, *)
(* and no socket.io handler touches frameBuffers, so the datagrams are     *)
(* explored against a registry that a few register events have built.      *)
(***************************************************************************)
MaxTotal == 3

Seqs == {5, 6}

\* Two senders. The first sends any datagram of Datagrams; the second, on
\* another machine, only the chunks of two small frames.
MainSource == [address |-> Ip5, port |-> 51000]

SideSource == [address |-> Ip6, port |-> 51000]

Sources == {MainSource, SideSource}

writeUInt16BE(n) == <<(n \div 256) % 256, n % 256>>

writeUInt32BE(n) ==
    <<(n \div 16777216) % 256, (n \div 65536) % 256, (n \div 256) % 256, n % 256>>

\* The 8-byte header the receiver parses, then the payload fragment.
Datagram(sequence, chunkIndex, totalChunks, payload) ==
    writeUInt32BE(sequence) \o writeUInt16BE(chunkIndex)
        \o writeUInt16BE(totalChunks) \o payload

\* A payload byte that tells which sequence and which chunk it was sent for.
TagByte(sequence, chunkIndex) == (sequence % 16) * 16 + chunkIndex

\* The fragments a sender may put in chunk chunkIndex of frame sequence: an
\* empty one (a datagram of exactly 8 bytes) or one tagged byte.
Payloads(sequence, chunkIndex) == {<<>>, <<TagByte(sequence, chunkIndex)>>}

Datagrams ==
    {Datagram(q, i, n, p) : <<q, i, n, p>> \in
        {<<q, i, n, p>> \in Seqs \X (0..MaxTotal) \X (0..MaxTotal) \X
            UNION {Payloads(q2, i2) : <<q2, i2>> \in Seqs \X (0..MaxTotal)} :
            p \in Payloads(q, i)}}
    \cup {<<>>, <<0, 0, 0, 5, 0, 0, 0>>}

SideDatagrams ==
    { Datagram(5, 0, 2, <<TagByte(5, 0)>>), Datagram(5, 1, 2, <<TagByte(5, 1)>>),
      Datagram(6, 0, 1, <<TagByte(6, 0)>>) }

DatagramsFrom(rinfo) == IF rinfo = MainSource THEN Datagrams ELSE SideDatagrams

RECURSIVE RegistryAfter(_)
RegistryAfter(evs) ==
    IF evs = <<>> THEN Result(<<>>, <<>>, <<>>)
    ELSE LET r  == RegistryAfter(SubSeq(evs, 1, Len(evs) - 1))
             ev == evs[Len(evs)]
         IN  RegisterEffect(r.admins, r.clients, ev[1], ev[2], <<>>)

\* The register events that built the registry the datagrams meet.
Scenes ==
    { <<>>,
      <<<<Sock2, "client">>>>,
      <<<<Sock3, "admin">>, <<Sock2, "client">>, <<Sock1, "client">>>>,
      <<<<Sock1, "admin">>, <<Sock2, "admin">>, <<Sock3, "client">>>> }

InitRegistry(scene) ==
    /\ conn = [s \in SocketIds |->
                 IF \E i \in 1..Len(scene) : scene[i][1] = s THEN "open" ELSE "fresh"]
    /\ admins = RegistryAfter(scene).admins
    /\ clients = RegistryAfter(scene).clients
    /\ sent = <<>>
    /\ completed = <<>>
    /\ crashed = FALSE
    /\ last = "none"
    /\ streak = 0
    /\ relayed = {}
    /\ idle = <<>>

\* No admin app is looked at.
NoApp ==
    /\ view = <<>>
    /\ remoteControlClient = Null
    /\ uplink = <<>>
    /\ remoteScreenSize = DefaultScreenSize
    /\ downlink = <<>>
    /\ asked = {}
    /\ transfer = NoTransfer
    /\ agentApp = NoAgents
    /\ issued = ""

UdpHandled(rinfo, msg) ==
    LET r == UdpEffect(frameBuffers, admins, clients, rinfo, msg)
    IN  /\ frameBuffers' = r.frameBuffers
        /\ sent' = r.sent
        /\ completed' = r.completed
        /\ crashed' = r.crashed
        /\ relayed' = relayed \cup r.relayed
        /\ last' = "udp-message"
        /\ streak' = IF last = "udp-message" /\ r.sent = sent /\ streak >= 1
                     THEN 2 ELSE 1
        /\ idle' = [k \in DOMAIN r.frameBuffers |->
                       IF k = ClientKey(rinfo) THEN 0 ELSE idle[k]]
        /\ UNCHANGED <<conn, admins, clients, view, remoteControlClient, uplink,
                   remoteScreenSize, downlink, asked,
                   transfer, agentApp, issued>>

UdpMessage(rinfo, msg) ==
    /\ ~crashed
    /\ UdpHandled(rinfo, msg)
    /\ UNCHANGED <<plan, arrived>>

InitUdp ==
    /\ \E scene \in Scenes : InitRegistry(scene)
    /\ NoApp
    /\ frameBuffers = <<>>
    /\ plan = NoPlan
    /\ arrived = <<>>

NextUdp == \E rinfo \in Sources : \E msg \in DatagramsFrom(rinfo) : UdpMessage(rinfo, msg)

SpecUdp == InitUdp /\ [][NextUdp]_vars

(***************************************************************************)
(* One sender on its own: every datagram of Datagrams, in any order and    *)
(* any number of times, against each registry of Scenes. The buffer of a   *)
(* source depends on the datagrams of that source only (clientKey, line    *)
(* 24), so the states of one buffer are all met here.                      *)
(***************************************************************************)
NextBuffer == \E msg \in Datagrams : UdpMessage(MainSource, msg)

SpecBuffer == InitUdp /\ [][NextBuffer]_vars

(***************************************************************************)
(* Sources that fall silent. Time passes in ticks while no datagram        *)
(* arrives; the server runs no timer, so a tick runs no code of it and     *)
(* changes only the time the sources have been silent for. The count stops *)
(* one past InactivityTimeout.                                             *)
(***************************************************************************)
InactivityTimeout == 2

Tick ==
    /\ ~crashed
    /\ \E k \in DOMAIN idle : idle[k] <= InactivityTimeout
    /\ idle' = [k \in DOMAIN idle |->
                   IF idle[k] <= InactivityTimeout THEN idle[k] + 1 ELSE idle[k]]
    /\ UNCHANGED <<conn, admins, clients, frameBuffers, sent, completed, crashed,
                   last, streak, relayed, plan, arrived, view,
                   remoteControlClient, uplink,
                   remoteScreenSize, downlink, asked,
                   transfer, agentApp, issued>>

NextStall ==
    \/ \E rinfo \in Sources : \E msg \in SideDatagrams : UdpMessage(rinfo, msg)
    \/ Tick

SpecStall == InitUdp /\ [][NextStall]_vars

(***************************************************************************)
(* One frame, sent whole: a sender sets out to send the chunks 0..total-1  *)
(* of one frame, each once, and the network delivers them in any order.    *)
(* The source's buffer is new, or holds part of a frame of another         *)
(* sequence.                                                               *)
(***************************************************************************)
PlanPayloads(sequence, total) ==
    {f \in [1..total -> UNION {Payloads(sequence, i) : i \in 0..(total - 1)}] :
        \A i \in 1..total : f[i] \in Payloads(sequence, i - 1)}

Plans ==
    UNION { UNION { { [rinfo |-> r, sequence |-> q, total |-> n, payloads |-> f] :
                        f \in PlanPayloads(q, n) } :
                    n \in 1..MaxTotal } :
            <<r, q>> \in Sources \X Seqs }

OtherSeq(q) == CHOOSE q2 \in Seqs : q2 # q

\* What the source's earlier traffic left in frameBuffers.
Priors(p) ==
    { <<>>,
      UdpEffect(<<>>, <<>>, <<>>, p.rinfo,
                Datagram(OtherSeq(p.sequence), 0, 2,
                         <<TagByte(OtherSeq(p.sequence), 0)>>)).frameBuffers }

PlannedDatagram(i) == Datagram(plan.sequence, i, plan.total, plan.payloads[i + 1])

Delivered == {arrived[k] : k \in 1..Len(arrived)}

SendPlanned(i) ==
    /\ ~crashed
    /\ i < plan.total
    /\ i \notin Delivered
    /\ UdpHandled(plan.rinfo, PlannedDatagram(i))
    /\ arrived' = Append(arrived, i)
    /\ UNCHANGED plan

InitOrder ==
    /\ \E scene \in Scenes : InitRegistry(scene)
    /\ NoApp
    /\ plan \in Plans
    /\ frameBuffers \in Priors(plan)
    /\ arrived = <<>>

NextOrder == \E i \in 0..(MaxTotal - 1) : SendPlanned(i)

SpecOrder == InitOrder /\ [][NextOrder]_vars

(***************************************************************************)
(* The view of one admin app: the events that write its clients Map, in    *)
(* any order. The client-list messages are snapshots the server makes of   *)
(* the registries of Scenes; the frames come tagged with a socket id       *)
(* (screen-frame) or with the sender's address (udp-frame, h264-frame).    *)
(***************************************************************************)
Frames == {<<"f", "1">>, <<"f", "2">>}

FrameSenders == {Sock2, Sock3}

FrameIps == {Ip5, Ip6}

Snapshots == {ClientList(RegistryAfter(scene).clients) : scene \in Scenes}

Viewed(v, ev) ==
    /\ view' = v
    /\ last' = ev
    /\ UNCHANGED <<conn, admins, clients, frameBuffers, sent, completed, crashed,
                   streak, relayed, plan, arrived, idle, remoteControlClient, uplink,
                   remoteScreenSize, downlink, asked,
                   transfer, agentApp, issued>>

AppClientList(list) == Viewed(ClientListView(view, list), "client-list")

AppScreenFrame(clientId, data) ==
    Viewed(ScreenFrameView(view, clientId, data), "screen-frame")

AppUdpFrame(clientIp, dataUrl) ==
    Viewed(UdpFrameView(view, clientIp, dataUrl), "udp-frame")

AppH264Output(clientIp, imageData) ==
    Viewed(H264OutputView(view, clientIp, imageData), "h264-frame")

NextView ==
    \/ \E list \in Snapshots : AppClientList(list)
    \/ \E c \in FrameSenders, data \in Frames : AppScreenFrame(c, data)
    \/ \E ip \in FrameIps, data \in Frames : AppUdpFrame(ip, data)
    \/ \E ip \in FrameIps, data \in Frames : AppH264Output(ip, data)

SpecView == Init /\ [][NextView]_vars

(***************************************************************************)
(* Remote control: one admin app, its messages to the server in flight,    *)
(* and the server's handler for them. The admin is shown the clients of    *)
(* the client-list it got when it registered, and later those of the       *)
(* client-lists that follow. The grid with the control buttons is rendered *)
(* only while remoteControlClient is null, the control view with the       *)
(* close button while it is not.                                           *)
(***************************************************************************)
MaxUplink == 2

MaxDownlink == 1

\* The socket of the admin app: the first admin of the registry.
AppSocket == IF admins = <<>> THEN Null ELSE admins[1].id

\* What a client answers a request-screen-size with: the size of its screen.
ScreenOf(s) ==
    IF s = Sock1 THEN [width |-> 1366, height |-> 768]
    ELSE [width |-> 1280, height |-> 720]

\* The mouse, wheel and key events on the control view. nx and ny are the
\* place of the pointer in halves of the image's width and height, counted
\* from its left and top edge (the view is wider than the image, so the
\* pointer can be beside it); sinceLast is the time in ms since the last
\* mouse move that was sent.
Gestures ==
    LET NoGesture ==
            [type |-> "", sinceLast |-> 0, nx |-> 0, ny |-> 0, button |-> 0,
             deltaX |-> 0, deltaY |-> 0, key |-> "", code |-> "", ctrlKey |-> FALSE,
             altKey |-> FALSE, shiftKey |-> FALSE, metaKey |-> FALSE]
    IN  { [NoGesture EXCEPT !.type = "mousemove", !.sinceLast = 20, !.nx = 3, !.ny = 1],
          [NoGesture EXCEPT !.type = "mousemove", !.sinceLast = 5, !.nx = 1, !.ny = 1],
          [NoGesture EXCEPT !.type = "click", !.nx = 1, !.ny = 1, !.button = 2],
          [NoGesture EXCEPT !.type = "wheel", !.deltaY = 120],
          [NoGesture EXCEPT !.type = "keydown", !.key = "a", !.code = "KeyA"],
          [NoGesture EXCEPT !.type = "keydown", !.key = "Escape", !.code = "Escape"] }

\* handleRemoteMouseMove, handleRemoteClick, handleRemoteScroll and
\* handleRemoteKeyDown, called with remoteControlClient as clientId: the
\* remoteControlClient after the call and the messages emitted to the
\* server. The mouse handlers need the <img>, which is rendered when the
\* client is in the Map with a screenData; a click emits the move at once
\* and the click 20 ms later.
HandleRemoteInput(clientsMap, size, clientId, e) ==
    LET img == MapHas(clientsMap, clientId) /\ MapGet(clientsMap, clientId).screenData # <<>>
        x == (e.nx * size.width) \div 2
        y == (e.ny * size.height) \div 2
        Sign(n) == IF n > 0 THEN 1 ELSE IF n < 0 THEN -1 ELSE 0
        Emit(event, input) == [event |-> event, clientId |-> clientId, input |-> input]
        Stay(emitted) == [remoteControlClient |-> clientId, emitted |-> emitted]
    IN  CASE e.type = "mousemove" ->
                IF e.sinceLast < 16 \/ ~img THEN Stay(<<>>)
                ELSE Stay(<<Emit("remote-mouse-move", [NoInput EXCEPT !.x = x, !.y = y])>>)
          [] e.type = "click" ->
                IF ~img THEN Stay(<<>>)
                ELSE Stay(<<Emit("remote-mouse-move", [NoInput EXCEPT !.x = x, !.y = y]),
                            Emit("remote-mouse-click",
                                 [NoInput EXCEPT !.button =
                                     IF e.button = 2 THEN "right"
                                     ELSE IF e.button = 1 THEN "middle" ELSE "left"])>>)
          [] e.type = "wheel" ->
                Stay(<<Emit("remote-mouse-scroll",
                            [NoInput EXCEPT !.deltaX = Sign(e.deltaX) * (-1),
                                            !.deltaY = Sign(e.deltaY) * (-1)])>>)
          [] e.type = "keydown" ->
                IF e.key = "Escape" /\ ~e.ctrlKey /\ ~e.altKey /\ ~e.shiftKey
                THEN [remoteControlClient |-> Null, emitted |-> <<>>]
                ELSE Stay(<<Emit("remote-key-press",
                                 [NoInput EXCEPT !.key = e.key, !.code = e.code,
                                                 !.ctrl = e.ctrlKey, !.alt = e.altKey,
                                                 !.shift = e.shiftKey, !.meta = e.metaKey])>>)

InitControl ==
    /\ \E scene \in Scenes : InitRegistry(scene)
    /\ frameBuffers = <<>>
    /\ plan = NoPlan
    /\ arrived = <<>>
    /\ view = IF admins = <<>> THEN <<>> ELSE ClientListView(<<>>, ClientList(clients))
    /\ remoteControlClient = Null
    /\ uplink = <<>>
    /\ remoteScreenSize = DefaultScreenSize
    /\ downlink = <<>>
    /\ asked = {}
    /\ transfer = NoTransfer
    /\ agentApp = NoAgents
    /\ issued = ""

StartRemoteControl(clientId) ==
    /\ remoteControlClient = Null
    /\ MapHas(view, clientId)
    /\ Len(uplink) < MaxUplink
    /\ LET a == StartRemoteControlEffect(remoteControlClient, clientId)
       IN  /\ remoteControlClient' = a.remoteControlClient
           /\ uplink' = uplink \o a.emitted
    /\ last' = "startRemoteControl"
    /\ UNCHANGED <<conn, admins, clients, frameBuffers, sent, completed, crashed,
                   streak, relayed, plan, arrived, idle, view,
                   remoteScreenSize, downlink, asked,
                   transfer, agentApp, issued>>

StopRemoteControl ==
    /\ remoteControlClient # Null
    /\ remoteControlClient' = Null
    /\ last' = "stopRemoteControl"
    /\ UNCHANGED <<conn, admins, clients, frameBuffers, sent, completed, crashed,
                   streak, relayed, plan, arrived, idle, view, uplink,
                   remoteScreenSize, downlink, asked,
                   transfer, agentApp, issued>>

\* A mouse, wheel or key event on the control view, which is rendered while
\* remoteControlClient is not null.
RemoteGesture(e) ==
    /\ remoteControlClient # Null
    /\ LET a == HandleRemoteInput(view, remoteScreenSize, remoteControlClient, e)
       IN  /\ Len(uplink) + Len(a.emitted) <= MaxUplink
           /\ remoteControlClient' = a.remoteControlClient
           /\ uplink' = uplink \o a.emitted
    /\ last' = e.type
    /\ UNCHANGED <<conn, admins, clients, frameBuffers, sent, completed, crashed,
                   streak, relayed, plan, arrived, idle, view,
                   remoteScreenSize, downlink, asked,
                   transfer, agentApp, issued>>

\* The server ran a handler on a message of the admin app or of a client:
\* its emissions, those for the admin app also on their way to it.
Served(r, ev) ==
    /\ admins' = r.admins
    /\ clients' = r.clients
    /\ sent' = r.sent
    /\ streak' = IF last = ev /\ r.sent = sent /\ streak >= 1 THEN 2 ELSE 1
    /\ last' = ev
    /\ completed' = <<>>
    /\ downlink' = downlink \o SelectSeq(r.sent, LAMBDA m : m.to = AppSocket)
    /\ UNCHANGED <<frameBuffers, crashed, relayed, plan, arrived, idle, view,
                   remoteControlClient, remoteScreenSize, transfer, agentApp, issued>>

\* The server takes the oldest message in flight. The request reaches the
\* socket it names when that socket is connected.
RequestScreenSize ==
    /\ ~crashed
    /\ uplink # <<>>
    /\ Head(uplink).event = "request-screen-size"
    /\ Served(RequestScreenSizeEffect(admins, clients, Head(uplink).clientId),
              "request-screen-size")
    /\ uplink' = Tail(uplink)
    /\ asked' = IF Head(uplink).clientId \in SocketIds /\ conn[Head(uplink).clientId] = "open"
                THEN asked \cup {Head(uplink).clientId} ELSE asked
    /\ UNCHANGED conn

RemoteInput ==
    /\ ~crashed
    /\ uplink # <<>>
    /\ Head(uplink).event \in RemoteEvents
    /\ Served(RemoteInputEffect(admins, clients, Head(uplink).event,
                                Head(uplink).clientId, Head(uplink).input),
              Head(uplink).event)
    /\ uplink' = Tail(uplink)
    /\ UNCHANGED <<conn, asked,
                   transfer, agentApp, issued>>

\* A client that was asked answers, and the server handles the answer.
ScreenSizeAnswer(s) ==
    /\ ~crashed
    /\ s \in asked
    /\ conn[s] = "open"
    /\ Len(downlink) < MaxDownlink
    /\ Served(ScreenSizeResponseEffect(admins, clients, s, ScreenOf(s)),
              "screen-size-response")
    /\ asked' = asked \ {s}
    /\ UNCHANGED <<conn, uplink>>

\* A registered client sends a frame of its screen, and the server handles it.
Frame(s, data) ==
    /\ ~crashed
    /\ MapHas(clients, s)
    /\ conn[s] = "open"
    /\ Len(downlink) < MaxDownlink
    /\ Served(ScreenFrameEffect(admins, clients, s, data), "screen-frame")
    /\ UNCHANGED <<conn, uplink, asked,
                   transfer, agentApp, issued>>

\* A connection other than the admin app's goes away.
Leave(s) ==
    /\ ~crashed
    /\ s # AppSocket
    /\ conn[s] = "open"
    /\ Len(downlink) < MaxDownlink
    /\ conn' = [conn EXCEPT ![s] = "closed"]
    /\ Served(DisconnectEffect(admins, clients, s), "disconnect")
    /\ asked' = asked \ {s}
    /\ UNCHANGED uplink

\* The admin app takes the oldest message on its way to it.
OnClientList ==
    /\ downlink # <<>>
    /\ Head(downlink).event = "client-list"
    /\ view' = ClientListView(view, Head(downlink).list)
    /\ downlink' = Tail(downlink)
    /\ last' = "client-list"
    /\ UNCHANGED <<conn, admins, clients, frameBuffers, sent, completed, crashed,
                   streak, relayed, plan, arrived, idle, remoteControlClient, uplink,
                   remoteScreenSize, asked,
                   transfer, agentApp, issued>>

OnScreenFrame ==
    /\ downlink # <<>>
    /\ Head(downlink).event = "screen-frame"
    /\ view' = ScreenFrameView(view, Head(downlink).clientId, Head(downlink).data)
    /\ downlink' = Tail(downlink)
    /\ last' = "screen-frame"
    /\ UNCHANGED <<conn, admins, clients, frameBuffers, sent, completed, crashed,
                   streak, relayed, plan, arrived, idle, remoteControlClient, uplink,
                   remoteScreenSize, asked,
                   transfer, agentApp, issued>>

\* socket.on("screen-size"): setRemoteScreenSize({ width, height }).
OnScreenSize ==
    /\ downlink # <<>>
    /\ Head(downlink).event = "screen-size"
    /\ remoteScreenSize' = [width |-> Head(downlink).width, height |-> Head(downlink).height]
    /\ downlink' = Tail(downlink)
    /\ last' = "screen-size"
    /\ UNCHANGED <<conn, admins, clients, frameBuffers, sent, completed, crashed,
                   streak, relayed, plan, arrived, idle, view, remoteControlClient,
                   uplink, asked,
                   transfer, agentApp, issued>>

NextControl ==
    \/ \E c \in SocketIds : StartRemoteControl(c)
    \/ StopRemoteControl
    \/ RequestScreenSize
    \/ \E s \in SocketIds : ScreenSizeAnswer(s)
    \/ \E s \in SocketIds : Leave(s)
    \/ \E s \in SocketIds, data \in Images : Frame(s, data)
    \/ OnClientList
    \/ OnScreenFrame
    \/ OnScreenSize

SpecControl == InitControl /\ [][NextControl]_vars

(***************************************************************************)
(* Remote input: the admin app with the control view open or closed, the   *)
(* input messages in flight and the server's handlers for them. The first  *)
(* client of the view has shown a frame already, the others none; no       *)
(* client answers a request-screen-size here.                              *)
(***************************************************************************)
InitInput ==
    /\ \E scene \in Scenes : InitRegistry(scene)
    /\ frameBuffers = <<>>
    /\ plan = NoPlan
    /\ arrived = <<>>
    /\ view = IF admins = <<>> \/ clients = <<>> THEN <<>>
              ELSE ScreenFrameView(ClientListView(<<>>, ClientList(clients)),
                                   clients[1].id, <<"/", "9", "j", "=">>)
    /\ remoteControlClient = Null
    /\ uplink = <<>>
    /\ remoteScreenSize = DefaultScreenSize
    /\ downlink = <<>>
    /\ asked = {}
    /\ transfer = NoTransfer
    /\ agentApp = NoAgents
    /\ issued = ""

NextInput ==
    \/ \E c \in SocketIds : StartRemoteControl(c)
    \/ StopRemoteControl
    \/ \E e \in Gestures : RemoteGesture(e)
    \/ RequestScreenSize
    \/ RemoteInput
    \/ \E s \in SocketIds : Leave(s)
    \/ OnClientList

SpecInput == InitInput /\ [][NextInput]_vars

(***************************************************************************)
(* File transfer: one session. The relay's handlers are those of the       *)
(* server; the session with its per-target state, and what a target        *)
(* reports when, are as the specification of the file transfer describes   *)
(* them (sections 3 and 4.6): a target acknowledges the chunks it got,     *)
(* reports complete after it acknowledged every chunk, and may report an   *)
(* error as long as it is not done.                                        *)
(***************************************************************************)
MaxChunks == 2

ReportEvents ==
    {"file-transfer-progress", "file-transfer-complete", "file-transfer-error"}

\* The target was handed a chunk (received is the target's own record of
\* the chunks it holds), or the relay got a report of the target.
PerTargetState(st, event, chunkIndex) ==
    CASE event = "file-chunk" -> [st EXCEPT !.received = @ \cup {chunkIndex}]
      [] event = "file-transfer-progress" ->
            [st EXCEPT !.chunksAcked = @ \cup {chunkIndex}, !.status = "in-progress"]
      [] event = "file-transfer-complete" -> [st EXCEPT !.status = "complete"]
      [] event = "file-transfer-error" ->
            [st EXCEPT !.status = "error", !.lastError = "disk full"]

\* A session in which an error of one target ends every target.
SessionAbortsAll(tr, t, event, chunkIndex) ==
    LET state == IF event = "file-transfer-error"
                 THEN [u \in DOMAIN tr.state |->
                          PerTargetState(tr.state[u], event, chunkIndex)]
                 ELSE [tr.state EXCEPT ![t] = PerTargetState(@, event, chunkIndex)]
    IN  [tr EXCEPT !.state = state,
                   !.finished = \A u \in DOMAIN state :
                                   state[u].status \in {"complete", "error"}]

\* The session after an event of target t: only t's state changes, and the
\* session is finished when every target is complete or in error.
SessionAfter(tr, t, event, chunkIndex) ==
    LET state == [tr.state EXCEPT ![t] = PerTargetState(@, event, chunkIndex)]
    IN  [tr EXCEPT !.state = state,
                   !.finished = \A u \in DOMAIN state :
                                   state[u].status \in {"complete", "error"}]

\* A target that reports complete as soon as it acknowledged one chunk.
MayReportEarly(st, event, chunkIndex) ==
    /\ st.status \notin {"complete", "error"}
    /\ CASE event = "file-transfer-progress" ->
                chunkIndex \in st.received \ st.chunksAcked
         [] event = "file-transfer-complete" -> st.chunksAcked # {}
         [] event = "file-transfer-error" -> TRUE

\* What a target reports when.
MayReport(st, event, chunkIndex) ==
    /\ st.status \notin {"complete", "error"}
    /\ CASE event = "file-transfer-progress" ->
                chunkIndex \in st.received \ st.chunksAcked
         [] event = "file-transfer-complete" -> st.chunksAcked = 0..(MaxChunks - 1)
         [] event = "file-transfer-error" -> TRUE

InitTransfer ==
    /\ \E scene \in Scenes \cup {<<<<Sock1, "admin">>, <<Sock2, "client">>,
                                   <<Sock3, "client">>>>} : InitRegistry(scene)
    /\ NoApp
    /\ frameBuffers = <<>>
    /\ plan = NoPlan
    /\ arrived = <<>>

Transferred(r, ev, tr) ==
    /\ admins' = r.admins
    /\ clients' = r.clients
    /\ sent' = r.sent
    /\ last' = ev
    /\ streak' = IF ev = last /\ r.sent = sent /\ streak >= 1 THEN 2 ELSE 1
    /\ completed' = <<>>
    /\ transfer' = tr
    /\ UNCHANGED <<conn, frameBuffers, relayed, crashed, plan, arrived, idle, view,
                   remoteControlClient, uplink, remoteScreenSize, downlink, asked,
                   agentApp, issued>>

\* An admin starts the transfer to a list of targets.
TransferStart(s, clientIds, metadata) ==
    /\ ~crashed
    /\ conn[s] = "open"
    /\ MapHas(admins, s)
    /\ transfer = NoTransfer
    /\ Transferred(FileTransferStartEffect(admins, clients, clientIds, metadata),
                   "file-transfer-start",
                   [targets |-> clientIds,
                    state |-> [t \in {clientIds[i] : i \in 1..Len(clientIds)} |->
                                  [received |-> {}, chunksAcked |-> {},
                                   status |-> "pending", lastError |-> ""]],
                    finished |-> FALSE])

\* An admin sends a chunk to one target; the target has it when the relay
\* forwarded it.
SendChunk(s, t, chunk) ==
    /\ ~crashed
    /\ conn[s] = "open"
    /\ MapHas(admins, s)
    /\ t \in DOMAIN transfer.state
    /\ LET r == FileChunkEffect(admins, clients, t, chunk.transferId,
                                chunk.chunkIndex, chunk.data)
       IN  Transferred(r, "file-chunk",
                       IF r.sent # <<>>
                       THEN SessionAfter(transfer, t, "file-chunk", chunk.chunkIndex)
                       ELSE transfer)

\* A target reports, and the relay handles the report.
TargetReports(t, event, chunkIndex) ==
    /\ ~crashed
    /\ t \in DOMAIN transfer.state
    /\ t \in SocketIds
    /\ conn[t] = "open"
    /\ MayReport(transfer.state[t], event, chunkIndex)
    /\ event # "file-transfer-progress" => chunkIndex = 0
    /\ LET acked == PerTargetState(transfer.state[t], event, chunkIndex).chunksAcked
           data == [transferId |-> <<"t", "1">>,
                    progress |-> IF event = "file-transfer-progress"
                                 THEN Cardinality(acked) ELSE -1,
                    error |-> IF event = "file-transfer-error" THEN "disk full" ELSE ""]
       IN  Transferred(FileTransferReportEffect(admins, clients, event, t, data),
                       event, SessionAfter(transfer, t, event, chunkIndex))

NextTransfer ==
    \/ \E s \in SocketIds, ids \in TargetLists, md \in Metadatas :
          TransferStart(s, ids, md)
    \/ \E s \in SocketIds, t \in SocketIds, chunk \in FileChunks, i \in 0..(MaxChunks - 1) :
          SendChunk(s, t, [chunk EXCEPT !.chunkIndex = i])
    \/ \E t \in SocketIds, event \in ReportEvents, i \in 0..(MaxChunks - 1) :
          TargetReports(t, event, i)

SpecTransfer == InitTransfer /\ [][NextTransfer]_vars

(***************************************************************************)
(* Locking: one admin app, registered from the start, and the client apps  *)
(* of two machines. A client app connects, registers, may disconnect and   *)
(* connect again, under a new socket id each time; its isLocked is React   *)
(* state and outlives the connection. The commands of the admin app, the   *)
(* client-lists for it and the lock and unlock messages for the client     *)
(* apps are in flight until the other side handles them; no channel holds  *)
(* more than MaxDownlink messages.                                         *)
(***************************************************************************)
InitLock ==
    /\ InitRegistry(<<<<Sock1, "admin">>>>)
    /\ NoApp
    /\ frameBuffers = <<>>
    /\ plan = NoPlan
    /\ arrived = <<>>

\* lockClient, unlockClient (by the buttons of a client of the view),
\* lockAll and unlockAll: the emit, and the optimistic setClients.
AdminLocks(event, id) ==
    /\ Len(uplink) < MaxDownlink
    /\ event \in {"lock-client", "unlock-client"} => MapHas(view, id)
    /\ event \in {"lock-all", "unlock-all"} => id = Null
    /\ uplink' = Append(uplink,
                        [event |-> event, clientId |-> id,
                         message |-> IF event = "lock-client" THEN "Man hinh da bi khoa"
                                     ELSE IF event = "lock-all"
                                     THEN "Tat ca man hinh da bi khoa" ELSE "",
                         data |-> <<>>, input |-> NoInput])
    /\ view' = [i \in 1..Len(view) |->
                  IF event \in {"lock-all", "unlock-all"} \/ view[i].id = id
                  THEN [view[i] EXCEPT !.isLocked = event \in {"lock-client", "lock-all"}]
                  ELSE view[i]]
    /\ issued' = event
    /\ UNCHANGED <<conn, admins, clients, frameBuffers, sent, completed, crashed,
                   last, streak, relayed, plan, arrived, idle, remoteControlClient,
                   remoteScreenSize, downlink, asked, transfer, agentApp>>

\* The server ran a handler: its emissions for the admin app and for the
\* client apps are on their way; apps is the client apps as the event left
\* them.
Relayed(r, ev, apps) ==
    /\ admins' = r.admins
    /\ clients' = r.clients
    /\ sent' = r.sent
    /\ streak' = IF last = ev /\ r.sent = sent /\ streak >= 1 THEN 2 ELSE 1
    /\ last' = ev
    /\ completed' = <<>>
    /\ downlink' = downlink \o SelectSeq(r.sent, LAMBDA m : m.to = AppSocket)
    /\ agentApp' = [pc \in Machines |->
                      [apps[pc] EXCEPT !.inbox =
                          @ \o SelectSeq(r.sent, LAMBDA m : m.to = apps[pc].socket)]]
    /\ UNCHANGED <<frameBuffers, crashed, relayed, plan, arrived, idle, view,
                   remoteControlClient, remoteScreenSize, asked, transfer, issued>>

\* The server takes the oldest command of the admin app.
RelayCommand ==
    /\ uplink # <<>>
    /\ \A pc \in Machines : Len(agentApp[pc].inbox) < MaxDownlink
    /\ Relayed(OnCommand(admins, clients, AppSocket, Head(uplink)), Head(uplink).event,
               agentApp)
    /\ uplink' = Tail(uplink)
    /\ UNCHANGED conn

\* socket.on("connect") of the client app on pc, connected as s, and the
\* server's register handler for it.
AgentRegisters(pc, s) ==
    /\ agentApp[pc].socket = Null
    /\ conn[s] = "fresh"
    /\ Len(downlink) < MaxDownlink
    /\ conn' = [conn EXCEPT ![s] = "open"]
    /\ Relayed(RegisterEffect(admins, clients, s, "client", GivenName), "register",
               [agentApp EXCEPT ![pc].socket = s])
    /\ UNCHANGED uplink

\* The connection of the client app on pc goes away; what was on its way
\* to it is lost.
AgentLeaves(pc) ==
    /\ agentApp[pc].socket # Null
    /\ Len(downlink) < MaxDownlink
    /\ conn' = [conn EXCEPT ![agentApp[pc].socket] = "closed"]
    /\ Relayed(DisconnectEffect(admins, clients, agentApp[pc].socket), "disconnect",
               [agentApp EXCEPT ![pc].socket = Null, ![pc].inbox = <<>>])
    /\ UNCHANGED uplink

\* socket.on("lock") and socket.on("unlock") of the client app on pc.
AgentOnLock(pc) ==
    /\ agentApp[pc].inbox # <<>>
    /\ Head(agentApp[pc].inbox).event \in {"lock", "unlock"}
    /\ agentApp' = [agentApp EXCEPT
                       ![pc].isLocked = (Head(agentApp[pc].inbox).event = "lock"),
                       ![pc].inbox = Tail(@)]
    /\ UNCHANGED <<conn, admins, clients, frameBuffers, sent, completed, crashed,
                   last, streak, relayed, plan, arrived, idle, view,
                   remoteControlClient, uplink, remoteScreenSize, downlink, asked,
                   transfer, issued>>

NextLock ==
    \/ \E event \in {"lock-client", "unlock-client", "lock-all", "unlock-all"} :
          \E id \in SocketIds \cup {Null} : AdminLocks(event, id)
    \/ RelayCommand
    \/ \E pc \in Machines, s \in SocketIds : AgentRegisters(pc, s)
    \/ \E pc \in Machines : AgentLeaves(pc)
    \/ \E pc \in Machines : AgentOnLock(pc)
    \/ OnClientList

SpecLock == InitLock /\ [][NextLock]_vars

(***************************************************************************)
(* Claims                                                                  *)
(***************************************************************************)
RECURSIVE Flatten(_)
Flatten(ss) == IF ss = <<>> THEN <<>> ELSE Head(ss) \o Flatten(Tail(ss))

\* C1. Reassembly order-independence: when the chunks 0..n-1 of one frame
\* of one source arrive each once, in whatever order, no frame is emitted
\* before the last of them has arrived, and the datagram that arrives last
\* emits one frame: the payloads concatenated in index order.
C1_OrderIndependence ==
    /\ Len(arrived) < plan.total => completed = <<>>
    /\ Len(arrived) = plan.total =>
          completed = <<[key |-> ClientKey(plan.rinfo), sequence |-> plan.sequence,
                         frame |-> Flatten(plan.payloads)]>>

\* Chunk 2, then chunk 0, then chunk 1 of a 3-chunk frame have arrived, and
\* the frame came out in index order.
C1_Witness ==
    /\ arrived = <<2, 0, 1>>
    /\ plan.payloads = <<<<TagByte(5, 0)>>, <<TagByte(5, 1)>>, <<TagByte(5, 2)>>>>
    /\ Len(completed) = 1
    /\ completed[1].frame = <<TagByte(5, 0), TagByte(5, 1), TagByte(5, 2)>>

(***************************************************************************)
(* Datagram claims, under SpecUdp                                          *)
(***************************************************************************)
WellFormed(rinfo) == {msg \in DatagramsFrom(rinfo) : Len(msg) >= HeaderLength}

FilledSlots(chunks) == {j \in 1..Len(chunks) : chunks[j] # Hole}

\* The buffer of rinfo holds a frame that is partly received.
Partial(rinfo) ==
    /\ ClientKey(rinfo) \in DOMAIN frameBuffers
    /\ frameBuffers[ClientKey(rinfo)].received >= 1

\* The buffer of rinfo after the handler has handled msg in this state.
BufferAfter(rinfo, msg) ==
    UdpEffect(frameBuffers, admins, clients, rinfo, msg).frameBuffers[ClientKey(rinfo)]

\* C2. Sequence supersession: when the buffer of a source holds a partly
\* received frame, a datagram of that source with another sequence leaves
\* none of the stored chunks in the buffer: the buffer then has the new
\* sequence and total, and holds at most the chunk of this datagram. And no
\* frame is emitted with a chunk sent for another sequence than the frame's.
C2_Supersession ==
    /\ \A rinfo \in Sources : \A msg \in WellFormed(rinfo) :
          (Partial(rinfo)
             /\ readUInt32BE(msg, 0) # frameBuffers[ClientKey(rinfo)].sequence)
          => LET b == BufferAfter(rinfo, msg)
             IN  /\ b.sequence = readUInt32BE(msg, 0)
                 /\ b.total = readUInt16BE(msg, 6)
                 /\ b.received = Cardinality(FilledSlots(b.chunks))
                 /\ \A j \in FilledSlots(b.chunks) :
                       /\ j = readUInt16BE(msg, 4) + 1
                       /\ b.chunks[j] = <<Slice(msg, 8)>>
    /\ \A k \in 1..Len(completed) : \A n \in 1..Len(completed[k].frame) :
          completed[k].frame[n] \div 16 = completed[k].sequence % 16

\* Two of the three chunks of frame 5 are stored, and chunk 1 of the 2-chunk
\* frame 6 then leaves only itself in the buffer.
C2_Witness ==
    /\ Partial(MainSource)
    /\ frameBuffers[ClientKey(MainSource)].sequence = 5
    /\ frameBuffers[ClientKey(MainSource)].total = 3
    /\ frameBuffers[ClientKey(MainSource)].received = 2
    /\ BufferAfter(MainSource, Datagram(6, 1, 2, <<TagByte(6, 1)>>)) =
          [sequence |-> 6, chunks |-> <<Hole, <<<<TagByte(6, 1)>>>>>>, total |-> 2,
           received |-> 1]

\* C3. Duplicate suppression: a datagram delivered a second time, right
\* after its first delivery, is not stored, and leaves the buffers (so
\* receivedCount) as the first delivery left them.
C3_DuplicateSuppressed ==
    \A rinfo \in Sources : \A msg \in WellFormed(rinfo) :
        LET r1 == UdpEffect(frameBuffers, admins, clients, rinfo, msg)
            r2 == UdpEffect(r1.frameBuffers, admins, clients, rinfo, msg)
        IN  ~r1.crashed => (~r2.stored /\ r2.frameBuffers = r1.frameBuffers)

\* C4. At-most-once delivery: no datagram makes the relay forward a frame
\* of a source and sequence that it has forwarded to the admins before.
C4_AtMostOnce ==
    \A rinfo \in Sources : \A msg \in DatagramsFrom(rinfo) :
        UdpEffect(frameBuffers, admins, clients, rinfo, msg).relayed
            \cap relayed = {}

\* The datagrams that are shorter than the header.
Undersized == {msg \in Datagrams : Len(msg) < HeaderLength}

\* C13. A datagram shorter than the 8-byte header has no effect: the
\* frameBuffers Map is as it was, no entry is made for a source that had
\* none, no message is emitted, no frame completes and nothing is thrown.
C13_UndersizedDiscarded ==
    \A rinfo \in Sources : \A msg \in Undersized :
        LET r == UdpEffect(frameBuffers, admins, clients, rinfo, msg)
        IN  /\ r.frameBuffers = frameBuffers
            /\ DOMAIN r.frameBuffers = DOMAIN frameBuffers
            /\ r.sent = <<>>
            /\ r.completed = <<>>
            /\ ~r.crashed /\ ~r.stored

\* Only undersized datagrams have arrived so far, two or more: no source
\* has a buffer, and nothing was emitted.
C13_Witness ==
    /\ last = "udp-message"
    /\ streak = 2
    /\ DOMAIN frameBuffers = {}
    /\ Len(admins) = 1
    /\ sent = <<>>

\* The source has a buffer and msg has the sequence of that buffer.
SameSequence(rinfo, msg) ==
    /\ ClientKey(rinfo) \in DOMAIN frameBuffers
    /\ frameBuffers[ClientKey(rinfo)].sequence = readUInt32BE(msg, 0)

\* The total the range test of line 41 reads: the one recorded when the
\* buffer's sequence began, which is the datagram's own totalChunks when the
\* datagram begins a sequence.
RecordedTotal(rinfo, msg) ==
    IF SameSequence(rinfo, msg) THEN frameBuffers[ClientKey(rinfo)].total
    ELSE readUInt16BE(msg, 6)

\* C14 as stated. A datagram whose chunkIndex is not below its totalChunks
\* is stored in no slot and counted for nothing, leaves every chunk the
\* source's buffer holds in its slot, and emits and throws nothing.
C14_OutOfRangeKeepsChunks ==
    \A rinfo \in Sources : \A msg \in WellFormed(rinfo) :
        readUInt16BE(msg, 4) >= readUInt16BE(msg, 6) =>
            LET r == UdpEffect(frameBuffers, admins, clients, rinfo, msg)
            IN  /\ ~r.stored /\ ~r.crashed /\ r.sent = <<>> /\ r.completed = <<>>
                /\ ClientKey(rinfo) \in DOMAIN frameBuffers =>
                      LET old == frameBuffers[ClientKey(rinfo)].chunks
                          new == BufferAfter(rinfo, msg).chunks
                      IN  \A j \in FilledSlots(old) :
                              j <= Len(new) /\ new[j] = old[j]

\* C14, amended. A datagram whose chunkIndex is not below the total recorded
\* for its sequence is stored in no slot, counts for nothing, and emits and
\* throws nothing. When it has the sequence of the source's buffer, the
\* buffer (the chunks received so far included) is left as it was; when it
\* has another sequence it still begins that sequence: the buffer then
\* holds the new sequence and total and no chunk.
C14_OutOfRangeDiscarded ==
    \A rinfo \in Sources : \A msg \in WellFormed(rinfo) :
        readUInt16BE(msg, 4) >= RecordedTotal(rinfo, msg) =>
            LET r == UdpEffect(frameBuffers, admins, clients, rinfo, msg)
                b == BufferAfter(rinfo, msg)
            IN  /\ ~r.stored /\ ~r.crashed /\ r.sent = <<>> /\ r.completed = <<>>
                /\ SameSequence(rinfo, msg) => r.frameBuffers = frameBuffers
                /\ ~SameSequence(rinfo, msg) =>
                      /\ b = StartFrame(readUInt32BE(msg, 0), readUInt16BE(msg, 6))
                      /\ FilledSlots(b.chunks) = {}
                      /\ b.received = 0

\* Two of the three chunks of frame 5 are stored: chunk 3 of frame 5 then
\* changes nothing, and chunk 3 of the 2-chunk frame 6 leaves an empty
\* buffer for frame 6.
C14_Witness ==
    /\ last = "udp-message"
    /\ Partial(MainSource)
    /\ frameBuffers[ClientKey(MainSource)].sequence = 5
    /\ frameBuffers[ClientKey(MainSource)].total = 3
    /\ frameBuffers[ClientKey(MainSource)].received = 2
    /\ BufferAfter(MainSource, Datagram(5, 3, 3, <<TagByte(5, 3)>>))
          = frameBuffers[ClientKey(MainSource)]
    /\ BufferAfter(MainSource, Datagram(6, 3, 2, <<TagByte(6, 3)>>))
          = [sequence |-> 6, chunks |-> <<Hole, Hole>>, total |-> 2, received |-> 0]

\* C15. The buffer of a source that stalls mid-frame is destroyed by an
\* inactivity timeout: no source that has been silent for longer than the
\* timeout has a partly received frame in frameBuffers.
C15_StalledBufferDestroyed ==
    \A rinfo \in Sources :
        Partial(rinfo) => idle[ClientKey(rinfo)] <= InactivityTimeout

\* The ids of the clients whose recorded ip is address.
ClientsAt(address) == {clients[i].id : i \in {j \in 1..Len(clients) : clients[j].ip = address}}

\* C16. Whenever a datagram completes a frame of a source: if the ip of
\* some client is the source's address, every admin is sent exactly one
\* h264-frame message and nothing else is sent, each message tagged with
\* the id of a client whose ip is that address (the same id for every
\* admin) and carrying the frame's sequence and the frame in base64; if no
\* client has that ip, nothing is sent.
C16_Attribution ==
    \A rinfo \in Sources : \A msg \in DatagramsFrom(rinfo) :
        LET r == UdpEffect(frameBuffers, admins, clients, rinfo, msg)
        IN  /\ r.completed = <<>> => r.sent = <<>>
            /\ (r.completed # <<>> /\ ClientsAt(rinfo.address) = {}) => r.sent = <<>>
            /\ (r.completed # <<>> /\ ClientsAt(rinfo.address) # {}) =>
                  /\ Len(r.sent) = Len(admins)
                  /\ \A a \in MapKeys(admins) :
                        Cardinality({i \in 1..Len(r.sent) : r.sent[i].to = a}) = 1
                  /\ \A i \in 1..Len(r.sent) :
                        /\ r.sent[i].to \in MapKeys(admins)
                        /\ r.sent[i].event = "h264-frame"
                        /\ r.sent[i].clientId \in ClientsAt(rinfo.address)
                        /\ r.sent[i].clientId = r.sent[1].clientId
                        /\ r.sent[i].sequence = r.completed[1].sequence
                        /\ r.sent[i].sequence = readUInt32BE(msg, 0)
                        /\ r.sent[i].data = Base64(r.completed[1].frame)

\* The two chunks of frame 5 of the source at 10.0.0.6 have arrived while
\* two admins and the client at 10.0.0.6 are registered: each admin was
\* sent the frame once, tagged with that client.
C16_Witness ==
    /\ last = "udp-message"
    /\ MapKeys(admins) = {Sock1, Sock2}
    /\ Len(completed) = 1
    /\ completed[1].key = ClientKey(SideSource)
    /\ completed[1].frame = <<TagByte(5, 0), TagByte(5, 1)>>
    /\ sent = <<[Msg(Sock1, "h264-frame") EXCEPT !.clientId = Sock3, !.sequence = 5,
                    !.data = <<"U", "F", "E", "=">>],
                [Msg(Sock2, "h264-frame") EXCEPT !.clientId = Sock3, !.sequence = 5,
                    !.data = <<"U", "F", "E", "=">>]>>

(***************************************************************************)
(* Registry claims, under Spec                                             *)
(***************************************************************************)
Open == {s \in SocketIds : conn[s] = "open"}

\* C5. The role of a session is immutable: no connection is in the admins
\* and in the clients registry at once, and a register message with the
\* other role than the one the connection holds changes neither registry.
C5_RoleImmutable ==
    /\ \A s \in SocketIds : ~(MapHas(admins, s) /\ MapHas(clients, s))
    /\ \A s \in Open : \A name \in Names :
          /\ MapHas(admins, s) =>
                RegisterEffect(admins, clients, s, "client", name).clients = clients
          /\ MapHas(clients, s) =>
                RegisterEffect(admins, clients, s, "admin", name).admins = admins

\* C6. Re-registration is a no-op: a register message of a connection that
\* has a client session leaves the session (name, isLocked, place in the
\* clients Map) as it was.
C6_ReRegisterNoOp ==
    \A s \in Open : \A name \in Names :
        MapHas(clients, s) =>
            RegisterEffect(admins, clients, s, "client", name).clients = clients

\* r.sent is one client-list message to each admin of r and nothing else,
\* each listing the clients of r in Map order with id, ip and name.
IsSnapshotBroadcast(r) ==
    /\ \A a \in MapKeys(r.admins) :
          Cardinality({i \in 1..Len(r.sent) : r.sent[i].to = a}) = 1
    /\ \A i \in 1..Len(r.sent) :
          /\ r.sent[i].to \in MapKeys(r.admins)
          /\ r.sent[i].event = "client-list"
          /\ Len(r.sent[i].list) = Len(r.clients)
          /\ \A j \in 1..Len(r.clients) :
                r.sent[i].list[j] = [id |-> r.clients[j].id, ip |-> r.clients[j].ip,
                                     name |-> r.clients[j].name]

\* C7. Every register of a client and every disconnect of a registered
\* client sends each registered admin one client-list message that lists
\* exactly the clients registered right after the change.
C7_FullSnapshot ==
    \A s \in Open :
        /\ \A name \in Names :
              LET r == RegisterEffect(admins, clients, s, "client", name)
              IN  MapHas(r.clients, s) /\ IsSnapshotBroadcast(r)
        /\ MapHas(clients, s) =>
              LET r == DisconnectEffect(admins, clients, s)
              IN  ~MapHas(r.clients, s) /\ IsSnapshotBroadcast(r)

\* A client has just disconnected: the admin got the list of the one client
\* that is left.
C7_Witness ==
    /\ last = "disconnect"
    /\ Len(admins) = 1
    /\ Len(clients) = 1
    /\ Len(sent) = 1
    /\ sent[1].to = admins[1].id
    /\ sent[1].event = "client-list"
    /\ Len(sent[1].list) = 1
    /\ sent[1].list[1].id = clients[1].id

\* C8. With no admin registered, a client's register or disconnect, a
\* screen-frame, a screen-size-response and a completed UDP frame send
\* nothing and throw nothing, and the register or disconnect still changes
\* the clients registry.
C8_NoAdminsNoSends ==
    /\ ~crashed
    /\ admins = <<>> =>
          /\ \A s \in Open :
                /\ \A name \in Names :
                      LET r == RegisterEffect(admins, clients, s, "client", name)
                      IN  r.sent = <<>> /\ MapHas(r.clients, s)
                /\ LET r == DisconnectEffect(admins, clients, s)
                   IN  r.sent = <<>> /\ ~MapHas(r.clients, s)
                /\ \A data \in Images :
                      ScreenFrameEffect(admins, clients, s, data).sent = <<>>
                /\ \A size \in Sizes :
                      ScreenSizeResponseEffect(admins, clients, s, size).sent = <<>>
          /\ \A rinfo \in Sources :
                LET r == UdpEffect(<<>>, admins, clients, rinfo,
                                   Datagram(5, 0, 1, <<TagByte(5, 0)>>))
                IN  r.sent = <<>> /\ ~r.crashed /\ Len(r.completed) = 1

\* A second client has just registered while no admin is registered.
C8_Witness ==
    /\ last = "register"
    /\ admins = <<>>
    /\ Len(clients) = 2
    /\ sent = <<>>

\* C9. The disconnect of a connection that has no client session (unknown,
\* never registered, or an admin) leaves the clients registry as it is and
\* sends nothing; and a second disconnect of any connection changes nothing.
C9_RemoveNonClient ==
    \A s \in SocketIds \cup {UnknownId} :
        LET r1 == DisconnectEffect(admins, clients, s)
            r2 == DisconnectEffect(r1.admins, r1.clients, s)
        IN  /\ ~MapHas(clients, s) => (r1.clients = clients /\ r1.sent = <<>>)
            /\ r2.admins = r1.admins /\ r2.clients = r1.clients /\ r2.sent = <<>>

\* An admin has just disconnected while another admin and a client are
\* registered: nothing was sent.
C9_Witness ==
    /\ last = "disconnect"
    /\ Len(admins) = 1
    /\ Len(clients) = 1
    /\ sent = <<>>

\* C10. lock-client for a registered client, handled twice in a row, leaves
\* the registry as one handling leaves it (the client locked, nothing else
\* changed), and each handling emits one lock event to that client: two in
\* all. The same holds for unlock-client, unlocked and the unlock event.
C10_LockIdempotent ==
    \A c \in MapKeys(clients) :
        /\ \A m \in Messages :
              LET r1 == LockClientEffect(admins, clients, c, m)
                  r2 == LockClientEffect(r1.admins, r1.clients, c, m)
                  ev == [Msg(c, "lock") EXCEPT !.message = m]
              IN  /\ r1.admins = admins /\ r2.admins = admins
                  /\ r1.clients = [i \in 1..Len(clients) |->
                                     IF clients[i].id = c
                                     THEN [clients[i] EXCEPT !.isLocked = TRUE]
                                     ELSE clients[i]]
                  /\ r2.clients = r1.clients
                  /\ r1.sent \o r2.sent = <<ev, ev>>
        /\ LET r1 == UnlockClientEffect(admins, clients, c)
               r2 == UnlockClientEffect(r1.admins, r1.clients, c)
           IN  /\ r1.admins = admins /\ r2.admins = admins
               /\ r1.clients = [i \in 1..Len(clients) |->
                                  IF clients[i].id = c
                                  THEN [clients[i] EXCEPT !.isLocked = FALSE]
                                  ELSE clients[i]]
               /\ r2.clients = r1.clients
               /\ r1.sent \o r2.sent = <<Msg(c, "unlock"), Msg(c, "unlock")>>

\* lock-client has just been handled for the second time in a row for the
\* second of two clients: it is locked, the other is not, and the lock
\* event was emitted again.
C10_Witness ==
    /\ last = "lock-client"
    /\ streak = 2
    /\ Len(clients) = 2
    /\ clients[2].isLocked /\ ~clients[1].isLocked
    /\ sent = <<[Msg(clients[2].id, "lock") EXCEPT !.message = "test"]>>

\* C11. lock-all with k registered clients emits exactly k lock events, one
\* to each registered client and none to any other connection, leaves every
\* client locked, leaves the admins registry and the membership and order of
\* the clients registry as they were, and emits no client-list: a
\* client-list snapshot made afterwards is the one made before.
C11_LockAll ==
    \A m \in Messages :
        LET r == LockAllEffect(admins, clients, m)
        IN  /\ Len(r.sent) = Len(clients)
            /\ \A c \in MapKeys(clients) :
                  Cardinality({i \in 1..Len(r.sent) : r.sent[i].to = c}) = 1
            /\ \A i \in 1..Len(r.sent) :
                  /\ r.sent[i].to \in MapKeys(clients)
                  /\ r.sent[i].event = "lock"
                  /\ r.sent[i].message = m
            /\ r.admins = admins
            /\ Len(r.clients) = Len(clients)
            /\ \A i \in 1..Len(r.clients) :
                  r.clients[i] = [clients[i] EXCEPT !.isLocked = TRUE]
            /\ ClientList(r.clients) = ClientList(clients)
            /\ broadcastClientList(r.admins, r.clients)
                  = broadcastClientList(admins, clients)

\* lock-all has just been handled, a second time in a row, with an admin and
\* two clients registered: two lock events again, none to the admin.
C11_Witness ==
    /\ last = "lock-all"
    /\ streak = 2
    /\ Len(admins) = 1
    /\ Len(clients) = 2
    /\ clients[1].isLocked /\ clients[2].isLocked
    /\ sent = <<[Msg(clients[1].id, "lock") EXCEPT !.message = "test"],
                [Msg(clients[2].id, "lock") EXCEPT !.message = "test"]>>

\* The ids that are no key of the clients registry: connections that never
\* registered, admins, connections that are gone, and an id never seen.
NotClients == (SocketIds \cup {UnknownId}) \ MapKeys(clients)

\* C12. A command for an unknown target is dropped: lock-client,
\* unlock-client and file-chunk naming an id that is no registered client
\* emit nothing and leave both registries as they are, and
\* file-transfer-start emits nothing for such an id (one message for each
\* listed id that is registered, in list order) and changes no registry.
C12_UnknownTargetDropped ==
    /\ ~crashed
    /\ \A c \in NotClients :
          /\ \A m \in Messages :
                LockClientEffect(admins, clients, c, m) = Result(admins, clients, <<>>)
          /\ UnlockClientEffect(admins, clients, c) = Result(admins, clients, <<>>)
          /\ \A k \in FileChunks :
                FileChunkEffect(admins, clients, c, k.transferId, k.chunkIndex, k.data)
                    = Result(admins, clients, <<>>)
    /\ \A ids \in TargetLists : \A md \in Metadatas :
          LET r == FileTransferStartEffect(admins, clients, ids, md)
              known == SelectSeq(ids, LAMBDA c : c \notin NotClients)
          IN  /\ r.admins = admins /\ r.clients = clients
              /\ Len(r.sent) = Len(known)
              /\ \A i \in 1..Len(known) :
                    r.sent[i] = [Msg(known[i], "file-transfer-metadata")
                                    EXCEPT !.metadata = md]

\* file-transfer-start for two ids has just been handled while only one of
\* them is a registered client: the metadata went to that one alone.
C12_Witness ==
    /\ last = "file-transfer-start"
    /\ Len(admins) = 1
    /\ MapKeys(clients) = {Sock3}
    /\ sent = <<[Msg(Sock3, "file-transfer-metadata")
                    EXCEPT !.metadata = [file_name |-> <<"f">>]]>>

\* C18. A screen-frame message of a connection is sent on once to every
\* registered admin and to no other connection, with the payload it came
\* with and tagged with the sender's socket id; the registries are left as
\* they were.
C18_ScreenFrameRelay ==
    \A s \in Open : \A data \in Images :
        LET r == ScreenFrameEffect(admins, clients, s, data)
        IN  /\ r.admins = admins /\ r.clients = clients
            /\ Len(r.sent) = Len(admins)
            /\ \A a \in MapKeys(admins) :
                  Cardinality({i \in 1..Len(r.sent) : r.sent[i].to = a}) = 1
            /\ \A i \in 1..Len(r.sent) :
                  r.sent[i] = [Msg(r.sent[i].to, "screen-frame")
                                  EXCEPT !.clientId = s, !.data = data]

\* A screen-frame of the one registered client has just been handled while
\* two admins are registered: one message to each admin, none to the client.
C18_Witness ==
    /\ last = "screen-frame"
    /\ Len(admins) = 2
    /\ Len(clients) = 1
    /\ ~MapHas(admins, clients[1].id)
    /\ sent = <<[Msg(admins[1].id, "screen-frame")
                    EXCEPT !.clientId = clients[1].id, !.data = <<"/", "9", "j", "=">>],
                [Msg(admins[2].id, "screen-frame")
                    EXCEPT !.clientId = clients[1].id, !.data = <<"/", "9", "j", "=">>]>>

(***************************************************************************)
(* View claims, under SpecView                                             *)
(***************************************************************************)
\* C17. A frame from an address that matches no client of the view makes
\* a placeholder (a made-up id, the name from the address, the frame) only
\* when the view has no client at all; when the view has clients and none
\* matches, the frame is dropped and the view stays as it is. This for the
\* udp-frame listener and for the decoder output of the h264-frame listener.
C17_PlaceholderPolicy ==
    \A ip \in FrameIps : \A data \in Frames :
        ~Found(view, ip) =>
            /\ view = <<>> =>
                  /\ UdpFrameView(view, ip, data) = <<Placeholder(UdpPrefix, ip, data)>>
                  /\ H264OutputView(view, ip, data) = <<Placeholder(H264Prefix, ip, data)>>
            /\ view # <<>> =>
                  /\ UdpFrameView(view, ip, data) = view
                  /\ H264OutputView(view, ip, data) = view

MaxFrames == 3

\* The runs of one to MaxFrames screen-frame messages, each <<clientId, data>>.
FrameRuns == UNION {[1..n -> FrameSenders \X Frames] : n \in 1..MaxFrames}

RECURSIVE ViewAfter(_, _)
ViewAfter(v, msgs) ==
    IF msgs = <<>> THEN v
    ELSE ViewAfter(ScreenFrameView(v, Head(msgs)[1], Head(msgs)[2]), Tail(msgs))

\* The payload of the last message of msgs that is tagged c.
LastFor(msgs, c) ==
    msgs[CHOOSE i \in 1..Len(msgs) :
            /\ msgs[i][1] = c
            /\ \A j \in (i + 1)..Len(msgs) : msgs[j][1] # c][2]

\* C19. After the admin app has processed any run of screen-frame
\* messages, the screenData of every client a message was tagged with is
\* the payload of the last message tagged with it; nothing else of those
\* clients changed, every other client of the view is as it was, and the
\* view holds the clients it held and those the messages were tagged with.
C19_LatestFrame ==
    \A msgs \in FrameRuns :
        LET v == ViewAfter(view, msgs)
            tagged == {msgs[i][1] : i \in 1..Len(msgs)}
        IN  /\ MapKeys(v) = MapKeys(view) \cup tagged
            /\ Len(v) = Cardinality(MapKeys(v))
            /\ \A c \in tagged : MapGet(v, c).screenData = LastFor(msgs, c)
            /\ \A c \in tagged \cap MapKeys(view) :
                  MapGet(v, c) = [MapGet(view, c) EXCEPT !.screenData = LastFor(msgs, c)]
            /\ \A c \in MapKeys(view) \ tagged : MapGet(v, c) = MapGet(view, c)

\* A screen-frame has just been processed, and the two clients of the view,
\* one from a client-list and one a placeholder, show different frames.
C19_Witness ==
    /\ last = "screen-frame"
    /\ Len(view) = 2
    /\ view[1] = ClientInfo(Sock2, Ip5, DefaultName(Sock2), <<"f", "2">>)
    /\ view[2] = ClientInfo(Sock3, Unknown, DefaultName(Sock3), <<"f", "1">>)

(***************************************************************************)
(* Remote control claims, under SpecControl                                *)
(***************************************************************************)
\* C20. startRemoteControl(client) leaves the admin app with one target,
\* that client, whatever the target was before, and emits one
\* request-screen-size naming that client; the server, on that message,
\* emits exactly one request-screen-size, to that client and to nobody
\* else, and writes no registry. Right after startRemoteControl the newest
\* message in flight is the request that names the target.
C20_StartControl ==
    /\ remoteControlClient \in {Null} \cup SocketIds
    /\ \A c \in MapKeys(view) : \A current \in {Null} \cup SocketIds :
          LET a == StartRemoteControlEffect(current, c)
          IN  /\ a.remoteControlClient = c
              /\ a.emitted = <<ScreenSizeRequest(c)>>
              /\ RequestScreenSizeEffect(admins, clients, a.emitted[1].clientId)
                    = Result(admins, clients, <<Msg(c, "request-screen-size")>>)
    /\ last = "startRemoteControl" =>
          /\ uplink # <<>>
          /\ uplink[Len(uplink)] = ScreenSizeRequest(remoteControlClient)
    /\ last = "request-screen-size" =>
          /\ Len(sent) = 1
          /\ sent[1].event = "request-screen-size"
          /\ sent[1].to \in SocketIds

\* The admin has started to control the second client of its view, and the
\* server has just handled the request: one request-screen-size went to
\* that client, none is in flight.
C20_Witness ==
    /\ last = "request-screen-size"
    /\ Len(view) = 2
    /\ remoteControlClient = view[2].id
    /\ uplink = <<>>
    /\ streak = 1
    /\ sent = <<Msg(view[2].id, "request-screen-size")>>

(***************************************************************************)
(* Screen size and input forwarding claims, under Spec and SpecInput       *)
(***************************************************************************)
\* C21. A screen-size-response of a connection is sent on to every
\* registered admin, not to one of them only: each admin gets exactly one
\* screen-size message, it carries the responder's socket id and the width
\* and height of the response, no other connection gets one, and the
\* registries are left as they were.
C21_ScreenSizeBroadcast ==
    \A s \in Open : \A size \in Sizes :
        LET r == ScreenSizeResponseEffect(admins, clients, s, size)
        IN  /\ r.admins = admins /\ r.clients = clients
            /\ Len(r.sent) = Len(admins)
            /\ \A a \in MapKeys(admins) :
                  Cardinality({i \in 1..Len(r.sent) : r.sent[i].to = a}) = 1
            /\ \A i \in 1..Len(r.sent) :
                  r.sent[i] = [Msg(r.sent[i].to, "screen-size")
                                  EXCEPT !.clientId = s, !.width = size.width,
                                         !.height = size.height]

\* The one registered client has just answered while two admins are
\* registered: both admins got its size, tagged with its id.
C21_Witness ==
    /\ last = "screen-size-response"
    /\ Len(admins) = 2
    /\ Len(clients) = 1
    /\ ~MapHas(admins, clients[1].id)
    /\ sent = <<[Msg(admins[1].id, "screen-size")
                    EXCEPT !.clientId = clients[1].id, !.width = 1366, !.height = 768],
                [Msg(admins[2].id, "screen-size")
                    EXCEPT !.clientId = clients[1].id, !.width = 1366, !.height = 768]>>

\* Payloads of remote input messages with every field set, one of them with
\* a pointer far off any screen.
InputPayloads ==
    { [x |-> -960, y |-> 99999, button |-> "right", deltaX |-> -1, deltaY |-> 1,
       key |-> "a", code |-> "KeyA", ctrl |-> TRUE, alt |-> FALSE, shift |-> FALSE,
       meta |-> FALSE],
      [x |-> 683, y |-> 384, button |-> "left", deltaX |-> 0, deltaY |-> -1,
       key |-> "Escape", code |-> "Escape", ctrl |-> FALSE, alt |-> FALSE,
       shift |-> TRUE, meta |-> TRUE] }

\* C22. A remote-mouse-move, remote-mouse-click, remote-mouse-scroll or
\* remote-key-press message naming clientId makes the server emit exactly
\* one message: under the same event name, to clientId (registered or not)
\* and to no other connection, with the fields of that event as they came,
\* whatever the coordinates are; the registries, and with them the lock
\* state, are as before. The same message handled again is forwarded again.
C22_InputForwarded ==
    /\ \A event \in RemoteEvents : \A c \in SocketIds \cup {UnknownId} :
          \A p \in InputPayloads :
            LET r == RemoteInputEffect(admins, clients, event, c, p)
                m == r.sent[1]
            IN  /\ r.admins = admins /\ r.clients = clients
                /\ Len(r.sent) = 1
                /\ m.to = c /\ m.event = event
                /\ event = "remote-mouse-move" => m.input.x = p.x /\ m.input.y = p.y
                /\ event = "remote-mouse-click" => m.input.button = p.button
                /\ event = "remote-mouse-scroll" =>
                      m.input.deltaX = p.deltaX /\ m.input.deltaY = p.deltaY
                /\ event = "remote-key-press" =>
                      /\ m.input.key = p.key /\ m.input.code = p.code
                      /\ m.input.ctrl = p.ctrl /\ m.input.alt = p.alt
                      /\ m.input.shift = p.shift /\ m.input.meta = p.meta
                /\ RemoteInputEffect(r.admins, r.clients, event, c, p) = r
    /\ last \in RemoteEvents => Len(sent) = 1 /\ sent[1].event = last

\* The admin controls the first client of its view and has moved the
\* pointer to the right of the image: the server has just sent the move on
\* to that client, with an x beyond the default screen width.
C22_Witness ==
    /\ last = "remote-mouse-move"
    /\ view # <<>>
    /\ remoteControlClient = view[1].id
    /\ sent = <<[Msg(view[1].id, "remote-mouse-move")
                    EXCEPT !.input = [NoInput EXCEPT !.x = 2880, !.y = 540]]>>

\* C23. Once a client has disconnected and the admin app has processed the
\* client-list the server sent on that (none is on its way any more), the
\* app's remoteControlClient is not that client: the control view, from
\* which input goes to remoteControlClient, is closed.
C23_BindingDestroyed ==
    \A c \in SocketIds :
        (conn[c] = "closed" /\ downlink = <<>>) => remoteControlClient # c

(***************************************************************************)
(* Screen size claims, under SpecControl                                   *)
(***************************************************************************)
\* C24. Right after startRemoteControl, when the new target cannot have
\* answered yet, the size the admin app scales the pointer to is the
\* default, 1920x1080.
C24_DefaultUntilResponse ==
    last = "startRemoteControl" => remoteScreenSize = DefaultScreenSize

Reports ==
    { [transferId |-> <<"t", "1">>, progress |-> 1, error |-> ""],
      [transferId |-> <<"t", "2">>, progress |-> -1, error |-> "disk full"] }

\* C26. A file-transfer-progress, file-transfer-complete or
\* file-transfer-error message of a connection makes the server emit the
\* same event once to every registered admin, whoever started the transfer,
\* and to no other connection; each carries the reporter's socket id as
\* clientId and the transferId, progress and error as reported. The
\* registries are as before.
C26_ReportsToEveryAdmin ==
    \A event \in ReportEvents : \A s \in Open : \A data \in Reports :
        LET r == FileTransferReportEffect(admins, clients, event, s, data)
        IN  /\ r.admins = admins /\ r.clients = clients
            /\ Len(r.sent) = Len(admins)
            /\ \A a \in MapKeys(admins) :
                  Cardinality({i \in 1..Len(r.sent) : r.sent[i].to = a}) = 1
            /\ \A i \in 1..Len(r.sent) :
                  r.sent[i] = [Msg(r.sent[i].to, event)
                                  EXCEPT !.clientId = s,
                                         !.transferId = data.transferId,
                                         !.progress = data.progress,
                                         !.error = data.error]

\* The third connection, the only client, has just reported an error of the
\* transfer the first or the second connection started: both admins were
\* told, with the third connection's id.
C26_Witness ==
    /\ last = "file-transfer-error"
    /\ Len(admins) = 2
    /\ MapKeys(clients) = {Sock3}
    /\ sent = [i \in 1..2 |->
                  [Msg(admins[i].id, "file-transfer-error")
                      EXCEPT !.clientId = Sock3, !.transferId = <<"t", "1">>,
                             !.error = "disk full"]]

\* The targets of the session that are in the given states.
TargetsIn(statuses) ==
    {t \in DOMAIN transfer.state : transfer.state[t].status \in statuses}

\* C27. In a transfer with several targets, an error of target A leaves the
\* other targets alone. While A is in error, a chunk addressed to a
\* registered target B is still forwarded to B and to nobody else, and a
\* report of B is still sent on to every admin with B's id; the session is
\* finished exactly when every target is complete or in error, so not by
\* A's error while B is neither. And the step in which A goes into error
\* changes the state of no other target.
C27_PerTargetIsolation ==
    /\ [](\A a \in TargetsIn({"error"}) : \A b \in DOMAIN transfer.state \ {a} :
            /\ MapHas(clients, b) =>
                  \A chunk \in FileChunks :
                      FileChunkEffect(admins, clients, b, chunk.transferId,
                                      chunk.chunkIndex, chunk.data).sent
                        = <<[Msg(b, "file-chunk")
                                EXCEPT !.transferId = chunk.transferId,
                                       !.chunkIndex = chunk.chunkIndex,
                                       !.data = chunk.data]>>
            /\ \A event \in ReportEvents : \A data \in Reports :
                  LET out == FileTransferReportEffect(admins, clients, event, b, data).sent
                  IN  /\ Len(out) = Len(admins)
                      /\ \A i \in 1..Len(out) : out[i].clientId = b /\ out[i].event = event
            /\ transfer.state[b].status \notin {"complete", "error"} => ~transfer.finished)
    /\ [](transfer.finished <=>
            (transfer # NoTransfer /\ TargetsIn({"complete", "error"}) = DOMAIN transfer.state))
    /\ [][\A a \in DOMAIN transfer.state :
            (transfer.state[a].status # "error" /\ transfer'.state[a].status = "error")
            => \A b \in DOMAIN transfer.state \ {a} :
                  transfer'.state[b] = transfer.state[b]]_vars

\* The second connection went into error, and after that the third has
\* acknowledged both chunks and has just reported complete: the admin was
\* told with the third connection's id, and the session is finished.
C27_Witness ==
    /\ last = "file-transfer-complete"
    /\ transfer.targets = <<Sock2, Sock3>>
    /\ transfer.state[Sock2].status = "error"
    /\ transfer.state[Sock2].chunksAcked = {}
    /\ transfer.state[Sock3].status = "complete"
    /\ transfer.state[Sock3].chunksAcked = {0, 1}
    /\ transfer.finished
    /\ Len(sent) = 1
    /\ sent[1].clientId = Sock3

Orders(n) ==
    {f \in [1..n -> 0..(n - 1)] : \A i, j \in 1..n : f[i] = f[j] => i = j}

\* The results of the handler on the datagrams msgs of rinfo, one after the
\* other, starting from the buffers fb.
RECURSIVE RunDatagrams(_, _, _)
RunDatagrams(fb, rinfo, msgs) ==
    IF msgs = <<>> THEN <<>>
    ELSE LET r == UdpEffect(fb, admins, clients, rinfo, Head(msgs))
         IN  <<r>> \o RunDatagrams(r.frameBuffers, rinfo, Tail(msgs))

\* C30. When the buffer of a source holds a frame s of which a chunk is
\* missing, and then the chunks 0..n-1 of a frame with another sequence s2
\* arrive from that source, each once, in whatever order: no frame comes
\* out before the last of them, none with sequence s comes out at all, and
\* the last one completes the frame s2, the payloads in index order, which
\* is sent to every admin when a client is registered at the source's
\* address.
C30_LaterFrameCompletes ==
    \A rinfo \in Sources :
        Partial(rinfo) =>
            \A s2 \in Seqs \ {frameBuffers[ClientKey(rinfo)].sequence} :
              \A n \in 1..MaxTotal : \A order \in Orders(n) :
                LET msgs == [k \in 1..n |->
                                Datagram(s2, order[k], n, <<TagByte(s2, order[k])>>)]
                    rs == RunDatagrams(frameBuffers, rinfo, msgs)
                IN  /\ \A k \in 1..n : ~rs[k].crashed
                    /\ \A k \in 1..(n - 1) : rs[k].completed = <<>> /\ rs[k].sent = <<>>
                    /\ rs[n].completed =
                          <<[key |-> ClientKey(rinfo), sequence |-> s2,
                             frame |-> [j \in 1..n |-> TagByte(s2, j - 1)]]>>
                    /\ ClientsAt(rinfo.address) # {} =>
                          /\ Len(rs[n].sent) = Len(admins)
                          /\ \A i \in 1..Len(admins) :
                                /\ rs[n].sent[i].to = admins[i].id
                                /\ rs[n].sent[i].event = "h264-frame"
                                /\ rs[n].sent[i].sequence = s2

\* The second source has sent chunk 0 of the 2-chunk frame 5 and chunk 1
\* never came; two admins and a client at the source's address are
\* registered. The chunks 1 and 0 of a 2-chunk frame 6, in this order, then
\* complete frame 6, and both admins are sent it.
C30_Witness ==
    /\ Partial(SideSource)
    /\ frameBuffers[ClientKey(SideSource)].sequence = 5
    /\ frameBuffers[ClientKey(SideSource)].total = 2
    /\ frameBuffers[ClientKey(SideSource)].received = 1
    /\ Len(admins) = 2
    /\ ClientsAt(Ip6) = {Sock3}
    /\ LET rs == RunDatagrams(frameBuffers, SideSource,
                              <<Datagram(6, 1, 2, <<TagByte(6, 1)>>),
                                Datagram(6, 0, 2, <<TagByte(6, 0)>>)>>)
       IN  /\ rs[1].completed = <<>>
           /\ rs[2].completed = <<[key |-> ClientKey(SideSource), sequence |-> 6,
                                   frame |-> <<TagByte(6, 0), TagByte(6, 1)>>]>>
           /\ Len(rs[2].sent) = 2
           /\ rs[2].sent[1].clientId = Sock3

(***************************************************************************)
(* Datagram claims on the state of a buffer between two datagrams          *)
(***************************************************************************)
\* The buffer msg is tested against and stored into: the buffer of rinfo, or
\* a new one, after the sequence test of lines 32-38.
BufferFor(rinfo, msg) ==
    BeginFrame(IF ClientKey(rinfo) \in DOMAIN frameBuffers
               THEN frameBuffers[ClientKey(rinfo)] ELSE NewBuffer,
               readUInt32BE(msg, 0), readUInt16BE(msg, 6))

\* msg goes into the one slot of its frame that is still empty.
FillsLastSlot(rinfo, msg) ==
    LET b == BufferFor(rinfo, msg)
        i == readUInt16BE(msg, 4)
    IN  /\ i < b.total
        /\ FilledSlots(b.chunks) = (1..b.total) \ {i + 1}

\* C31. Between two datagrams no buffer with a total of 1 or more has as
\* many chunks received as its total. The datagram that fills the last
\* empty slot of a frame emits that frame, the slots in index order, and
\* leaves the buffer of its source with no chunk and a count of 0.
C31_AtomicDrain ==
    /\ \A k \in DOMAIN frameBuffers :
          frameBuffers[k].total >= 1 => frameBuffers[k].received # frameBuffers[k].total
    /\ \A rinfo \in Sources : \A msg \in WellFormed(rinfo) :
          FillsLastSlot(rinfo, msg) =>
              LET r == UdpEffect(frameBuffers, admins, clients, rinfo, msg)
                  b == BufferFor(rinfo, msg)
                  i == readUInt16BE(msg, 4)
              IN  /\ r.stored /\ ~r.crashed
                  /\ r.completed =
                        <<[key |-> ClientKey(rinfo), sequence |-> readUInt32BE(msg, 0),
                           frame |-> Flatten([j \in 1..b.total |->
                                        IF j = i + 1 THEN Slice(msg, 8)
                                        ELSE b.chunks[j][1]])]>>
                  /\ BufferAfter(rinfo, msg).received = 0
                  /\ BufferAfter(rinfo, msg).chunks = <<>>

\* The first source's 2-chunk frame 5 has just come out, chunk 1 last, and
\* its buffer holds no chunk and counts none.
C31_Witness ==
    /\ last = "udp-message"
    /\ completed = <<[key |-> ClientKey(MainSource), sequence |-> 5,
                      frame |-> <<TagByte(5, 0), TagByte(5, 1)>>]>>
    /\ frameBuffers[ClientKey(MainSource)] =
          [sequence |-> 5, chunks |-> <<>>, total |-> 2, received |-> 0]

\* Every chunk in the buffer b was sent for the sequence of b and for the
\* slot it is in (an empty fragment tells nothing).
OneSequence(b) ==
    \A j \in FilledSlots(b.chunks) :
        b.chunks[j][1] \in Payloads(b.sequence, j - 1)

\* C32. A datagram whose sequence differs from the sequence of its
\* source's partly received frame, higher or lower, takes the buffer over:
\* the buffer then has the datagram's sequence and holds at most the
\* datagram's own chunk. A late chunk of the older sequence that comes next
\* takes it over again and leaves no chunk of the newer sequence, nor the
\* chunks the older frame had before. In every state every buffer holds
\* chunks of its own sequence only.
C32_LastWriterWins ==
    /\ \A k \in DOMAIN frameBuffers : OneSequence(frameBuffers[k])
    /\ \A rinfo \in Sources : \A msg \in WellFormed(rinfo) :
          (Partial(rinfo)
             /\ readUInt32BE(msg, 0) # frameBuffers[ClientKey(rinfo)].sequence)
          => LET old == frameBuffers[ClientKey(rinfo)]
                 r == UdpEffect(frameBuffers, admins, clients, rinfo, msg)
                 b == r.frameBuffers[ClientKey(rinfo)]
             IN  /\ b.sequence = readUInt32BE(msg, 0)
                 /\ FilledSlots(b.chunks) \subseteq {readUInt16BE(msg, 4) + 1}
                 /\ \A late \in WellFormed(rinfo) :
                       readUInt32BE(late, 0) = old.sequence =>
                          LET b2 == UdpEffect(r.frameBuffers, admins, clients, rinfo,
                                              late).frameBuffers[ClientKey(rinfo)]
                          IN  /\ b2.sequence = old.sequence
                              /\ b2.total = readUInt16BE(late, 6)
                              /\ FilledSlots(b2.chunks)
                                    \subseteq {readUInt16BE(late, 4) + 1}
                              /\ \A j \in FilledSlots(b2.chunks) :
                                    b2.chunks[j] = <<Slice(late, 8)>>

\* Two of the three chunks of frame 6 are stored: chunk 1 of the 2-chunk
\* frame 5, a lower sequence, leaves only itself in the buffer, and chunk 2
\* of frame 6, coming late after it, leaves only itself again.
C32_Witness ==
    /\ Partial(MainSource)
    /\ frameBuffers[ClientKey(MainSource)].sequence = 6
    /\ frameBuffers[ClientKey(MainSource)].total = 3
    /\ frameBuffers[ClientKey(MainSource)].received = 2
    /\ LET rs == RunDatagrams(frameBuffers, MainSource,
                              <<Datagram(5, 1, 2, <<TagByte(5, 1)>>),
                                Datagram(6, 2, 3, <<TagByte(6, 2)>>)>>)
       IN  /\ rs[1].frameBuffers[ClientKey(MainSource)] =
                 [sequence |-> 5, chunks |-> <<Hole, <<<<TagByte(5, 1)>>>>>>,
                  total |-> 2, received |-> 1]
           /\ rs[2].frameBuffers[ClientKey(MainSource)] =
                 [sequence |-> 6, chunks |-> <<Hole, Hole, <<<<TagByte(6, 2)>>>>>>,
                  total |-> 3, received |-> 1]

\* C33. Reassembly does not read the registry: whatever admins and clients
\* are registered, a datagram leaves the same frameBuffers, is stored or
\* not, and completes the same frame; only the messages sent for a
\* completed frame differ, and they are the forwarding step for that frame.
C33_RegistryIndependent ==
    \A rinfo \in Sources : \A msg \in DatagramsFrom(rinfo) :
        LET r == UdpEffect(frameBuffers, admins, clients, rinfo, msg)
        IN  /\ \A scene \in Scenes :
                  LET o == UdpEffect(frameBuffers, RegistryAfter(scene).admins,
                                     RegistryAfter(scene).clients, rinfo, msg)
                  IN  /\ o.frameBuffers = r.frameBuffers
                      /\ o.completed = r.completed
                      /\ o.stored = r.stored
                      /\ o.crashed = r.crashed
            /\ r.sent = IF r.completed = <<>> THEN <<>>
                        ELSE ForwardFrame(admins, FindClientByIp(clients, rinfo.address),
                                          r.completed[1].frame, r.completed[1].sequence)

\* Two admins are registered and no client at 10.0.0.5: the 2-chunk frame 5
\* of the source at 10.0.0.5 has just been reassembled, and nothing was sent.
C33_Witness ==
    /\ last = "udp-message"
    /\ Len(admins) = 2
    /\ ClientsAt(Ip5) = {}
    /\ completed = <<[key |-> ClientKey(MainSource), sequence |-> 5,
                      frame |-> <<TagByte(5, 0), TagByte(5, 1)>>]>>
    /\ sent = <<>>
    /\ frameBuffers[ClientKey(MainSource)].received = 0

\* What C40 says of every buffer and every datagram but the rule of
\* acceptance: a datagram with the buffer's sequence leaves the recorded
\* total as it is, whatever its own totalChunks; a frame completes exactly
\* when the store fills the last of the slots the recorded total counts;
\* and received is the number of filled slots, at most the recorded total.
TotalFixed ==
    /\ \A k \in DOMAIN frameBuffers :
          LET b == frameBuffers[k]
          IN  /\ b.received = Cardinality(FilledSlots(b.chunks))
              /\ b.received <= b.total
              /\ FilledSlots(b.chunks) \subseteq 1..b.total
    /\ \A rinfo \in Sources : \A msg \in WellFormed(rinfo) :
          LET r == UdpEffect(frameBuffers, admins, clients, rinfo, msg)
          IN  /\ SameSequence(rinfo, msg) =>
                    BufferAfter(rinfo, msg).total = frameBuffers[ClientKey(rinfo)].total
              /\ BufferAfter(rinfo, msg).total = RecordedTotal(rinfo, msg)
              /\ r.completed # <<>> <=> (r.stored /\ FillsLastSlot(rinfo, msg))

\* C40 as stated. The chunk count of a frame is the totalChunks of the
\* first datagram of its sequence, and a chunk is accepted (stored) if and
\* only if its chunkIndex is below that recorded total.
C40_AcceptedIffInRange ==
    /\ TotalFixed
    /\ \A rinfo \in Sources : \A msg \in WellFormed(rinfo) :
          UdpEffect(frameBuffers, admins, clients, rinfo, msg).stored
              <=> readUInt16BE(msg, 4) < RecordedTotal(rinfo, msg)

\* C40, amended. The chunk count of a frame is the totalChunks of the
\* first datagram of its sequence, and a chunk is stored if and only if its
\* chunkIndex is below that recorded total and the slot of that index is
\* still empty.
C40_TotalFromFirstDatagram ==
    /\ TotalFixed
    /\ \A rinfo \in Sources : \A msg \in WellFormed(rinfo) :
          UdpEffect(frameBuffers, admins, clients, rinfo, msg).stored
              <=> /\ readUInt16BE(msg, 4) < RecordedTotal(rinfo, msg)
                  /\ readUInt16BE(msg, 4) + 1
                        \notin FilledSlots(BufferFor(rinfo, msg).chunks)

\* Chunk 0 of frame 5 is stored and the recorded total is 2. A datagram of
\* frame 5 that says chunk 2 of 3 is not stored and leaves the total at 2,
\* and one that says chunk 1 of 1 is stored and completes the frame.
C40_Witness ==
    /\ last = "udp-message"
    /\ ClientKey(MainSource) \in DOMAIN frameBuffers
    /\ frameBuffers[ClientKey(MainSource)] =
          [sequence |-> 5, chunks |-> <<<<<<TagByte(5, 0)>>>>, Hole>>, total |-> 2,
           received |-> 1]
    /\ ~UdpEffect(frameBuffers, admins, clients, MainSource,
                  Datagram(5, 2, 3, <<TagByte(5, 2)>>)).stored
    /\ BufferAfter(MainSource, Datagram(5, 2, 3, <<TagByte(5, 2)>>)).total = 2
    /\ UdpEffect(frameBuffers, admins, clients, MainSource,
                 Datagram(5, 1, 1, <<TagByte(5, 1)>>)).completed
          = <<[key |-> ClientKey(MainSource), sequence |-> 5,
               frame |-> <<TagByte(5, 0), TagByte(5, 1)>>]>>

(***************************************************************************)
(* Admin app claims on the screen size and the lock flags                  *)
(***************************************************************************)
\* C36. While the admin app is bound to a client, the screen size it
\* scales the pointer with is the default one or the size of that client's
\* screen, never the size another client reported.
C36_SizeOfBoundTarget ==
    remoteControlClient # Null =>
        remoteScreenSize \in {DefaultScreenSize, ScreenOf(remoteControlClient)}

\* The Map v with isLocked set on the ids of locked and isSelected on those
\* of selected, as lockClient, lockAll and selectClient set them.
Flagged(v, locked, selected) ==
    [i \in 1..Len(v) |-> [v[i] EXCEPT !.isLocked = (v[i].id \in locked),
                                      !.isSelected = (v[i].id \in selected)]]

\* The flags the entries of the view may carry: none or all locked, or one
\* locked; none or one selected.
FlagSets ==
    {{}, MapKeys(view)} \cup {{k} : k \in MapKeys(view)}

\* C37. After the client-list handler has run on a snapshot, the ids of the
\* view are exactly the ids of the snapshot, each once; an entry that was
\* in the view before is as it was (isLocked, isSelected and screenData
\* included) but for the ip and name, which are those of the snapshot; an
\* entry that was not is new, with no frame and no flag.
C37_SnapshotReplacesIds ==
    \A list \in Snapshots : \A locked \in FlagSets :
      \A selected \in {{}} \cup {{k} : k \in MapKeys(view)} :
        LET prev == Flagged(view, locked, selected)
            next == ClientListView(prev, list)
        IN  /\ MapKeys(next) = {list[i].id : i \in 1..Len(list)}
            /\ Len(next) = Len(list)
            /\ \A i \in 1..Len(list) :
                  MapGet(next, list[i].id) =
                      IF MapHas(prev, list[i].id)
                      THEN [id |-> list[i].id, ip |-> list[i].ip, name |-> list[i].name,
                            screenData |-> MapGet(prev, list[i].id).screenData,
                            isLocked |-> MapGet(prev, list[i].id).isLocked,
                            isSelected |-> MapGet(prev, list[i].id).isSelected]
                      ELSE [id |-> list[i].id, ip |-> list[i].ip, name |-> list[i].name,
                            screenData |-> <<>>, isLocked |-> FALSE,
                            isSelected |-> FALSE]

\* The view holds a client with a frame and a placeholder for an address:
\* a snapshot that lists the client and another one keeps the client's
\* frame, drops the placeholder and adds the other client; and the app has
\* just handled a snapshot that left a client its frame.
C37_Witness ==
    /\ last = "client-list"
    /\ \E i \in 1..Len(view) : view[i].id = Sock2 /\ view[i].screenData = <<"f", "1">>
    /\ LET prev == MapSet(view, Placeholder(H264Prefix, Ip6, <<"f", "2">>))
           list == ClientList(RegistryAfter(<<<<Sock2, "client">>,
                                              <<Sock1, "client">>>>).clients)
       IN  /\ MapKeys(ClientListView(prev, list)) = {Sock1, Sock2}
           /\ MapGet(ClientListView(prev, list), Sock2).screenData = <<"f", "1">>

(***************************************************************************)
(* Registry claims on late admins and on the sender's role, under Spec     *)
(***************************************************************************)
\* C38. The register of an admin sends that admin, in the same handler run,
\* one client-list message that lists exactly the clients registered at
\* that moment, with their ip and name; an admin app that has handled it
\* shows exactly those clients.
C38_LateAdminGetsSnapshot ==
    \A s \in Open : \A name \in NamesOf(s) :
        LET r == RegisterEffect(admins, clients, s, "admin", name)
            mine == SelectSeq(r.sent, LAMBDA m : m.to = s)
        IN  /\ r.clients = clients
            /\ Len(mine) = 1
            /\ mine[1].event = "client-list"
            /\ mine[1].list = [j \in 1..Len(clients) |->
                                  [id |-> clients[j].id, ip |-> clients[j].ip,
                                   name |-> clients[j].name]]
            /\ LET shown == ClientListView(<<>>, mine[1].list)
               IN  /\ MapKeys(shown) = MapKeys(clients)
                   /\ \A c \in MapKeys(clients) :
                         /\ MapGet(shown, c).ip = MapGet(clients, c).ip
                         /\ MapGet(shown, c).name = MapGet(clients, c).name

\* Two clients and one admin are registered and the last register sent the
\* admin the list of both; a connection that registers as admin now is sent
\* the same list of two.
C38_Witness ==
    /\ last = "register"
    /\ Len(clients) = 2
    /\ Len(admins) = 1
    /\ Len(sent) = 1
    /\ sent[1].to = admins[1].id
    /\ sent[1].event = "client-list"
    /\ {sent[1].list[j].id : j \in 1..Len(sent[1].list)} = MapKeys(clients)
    /\ RegisterEffect(admins, clients, admins[1].id, "admin", <<>>).sent = sent

\* The commands of C39, each with every target and payload of the model.
Commands ==
    LET NoCommand == [event |-> "", clientId |-> Null, message |-> "", data |-> <<>>,
                      input |-> NoInput]
    IN  {[NoCommand EXCEPT !.event = "lock-client", !.clientId = c, !.message = m] :
            <<c, m>> \in (SocketIds \cup {UnknownId}) \X Messages}
        \cup {[NoCommand EXCEPT !.event = "unlock-client", !.clientId = c] :
                c \in SocketIds \cup {UnknownId}}
        \cup {[NoCommand EXCEPT !.event = "lock-all", !.message = m] : m \in Messages}
        \cup {[NoCommand EXCEPT !.event = "unlock-all"]}
        \cup {[NoCommand EXCEPT !.event = "screen-frame", !.data = d] : d \in Images}
        \cup {[NoCommand EXCEPT !.event = e, !.clientId = c, !.input = p] :
                <<e, c, p>> \in RemoteEvents \X {Sock2} \X InputPayloads}

\* What s is to the relay: a registered admin, a registered client, both
\* (it registered under both roles) or neither.
RoleOf(s) == <<MapHas(admins, s), MapHas(clients, s)>>

\* C39. A command changes the registries and is sent on in the same way
\* whichever open connection sends it, a registered admin, a registered
\* client or one that never registered: the registries after it and the
\* messages are those the command gets from a connection that is in neither
\* registry, but for the clientId of a screen-frame, which names the
\* sender. So lock-all and unlock-all reach every client, lock-client and
\* unlock-client a registered target, a screen-frame every admin and a
\* remote input event its target, whoever sent them.
C39_RoleNeverConsulted ==
    \A cmd \in Commands :
        LET o == OnCommand(admins, clients, UnknownId, cmd)
        IN  /\ \A s \in Open :
                  LET r == OnCommand(admins, clients, s, cmd)
                  IN  /\ r.admins = o.admins
                      /\ r.clients = o.clients
                      /\ r.sent = IF cmd.event = "screen-frame"
                                  THEN [i \in 1..Len(o.sent) |->
                                           [o.sent[i] EXCEPT !.clientId = s]]
                                  ELSE o.sent
            /\ cmd.event = "lock-all" =>
                  /\ \A i \in 1..Len(o.clients) : o.clients[i].isLocked
                  /\ Len(o.sent) = Len(clients)
            /\ cmd.event = "unlock-all" =>
                  /\ \A i \in 1..Len(o.clients) : ~o.clients[i].isLocked
                  /\ Len(o.sent) = Len(clients)
            /\ (cmd.event = "lock-client" /\ MapHas(clients, cmd.clientId)) =>
                  MapGet(o.clients, cmd.clientId).isLocked /\ Len(o.sent) = 1
            /\ (cmd.event = "unlock-client" /\ MapHas(clients, cmd.clientId)) =>
                  ~MapGet(o.clients, cmd.clientId).isLocked /\ Len(o.sent) = 1
            /\ cmd.event = "screen-frame" => Len(o.sent) = Len(admins)
            /\ cmd.event \in RemoteEvents => Len(o.sent) = 1

\* No admin is registered, two clients are, and a third connection is open
\* that never registered: a lock-all has just locked both clients and sent
\* each the lock, and the three connections are of two different roles.
C39_Witness ==
    /\ last = "lock-all"
    /\ admins = <<>>
    /\ Len(clients) = 2
    /\ \A i \in 1..Len(clients) : clients[i].isLocked
    /\ Len(sent) = 2
    /\ Open = SocketIds
    /\ Cardinality({RoleOf(s) : s \in Open}) = 2

(***************************************************************************)
(* Lock claims, under SpecLock                                             *)
(***************************************************************************)
\* No command, client-list, lock or unlock is on its way.
Quiescent ==
    /\ uplink = <<>>
    /\ downlink = <<>>
    /\ \A pc \in Machines : agentApp[pc].inbox = <<>>

\* C34. In every state with no message in flight, every connected client
\* app is in the clients registry, and the isLocked the registry holds for
\* its connection is the isLocked of the app.
C34_LockAgreement ==
    Quiescent =>
        \A pc \in Machines :
            agentApp[pc].socket # Null =>
                /\ MapHas(clients, agentApp[pc].socket)
                /\ MapGet(clients, agentApp[pc].socket).isLocked = agentApp[pc].isLocked

\* C35. When the command the admin app issued last is a lock-all or an
\* unlock-all and no message is in flight, the admin app shows exactly the
\* registered clients, each with the isLocked the registry holds for it.
C35_OptimisticViewMatches ==
    (Quiescent /\ issued \in {"lock-all", "unlock-all"}) =>
        /\ MapKeys(view) = MapKeys(clients)
        /\ \A c \in MapKeys(clients) :
              MapGet(view, c).isLocked = MapGet(clients, c).isLocked

====
